---- MODULE Spec2Model ----
(***************************************************************************)
(* Model of the c64u-obs video path: the UDP video receiver thread         *)
(* (video_thread_func, src/src/c64u-video.c) that reassembles frames       *)
(* from packets, colour-converts a complete frame into the back buffer     *)
(* and swaps the double buffer, together with the consumer's render call   *)
(* (c64u_render, src/src/c64u-source.c) and the frame selection of the     *)
(* timing engine (c64u_timing_get_frame_for_obs).                          *)
(*                                                                         *)
(* Scale.  The protocol constants live in c64u-protocol.h, which is not    *)
(* among the sources; the model uses small stand-ins for them (a slot      *)
(* table of C64U_MAX_PACKETS_PER_FRAME packets of C64U_LINES_PER_PACKET lines each).  Time is       *)
(* counted in milliseconds, the unit in which is_frame_timeout compares.   *)
(***************************************************************************)
EXTENDS Integers, Sequences, FiniteSets, TLC

(***************************************************************************)
(* Bounds of the model.                                                    *)
(***************************************************************************)
\* slot-table capacity, scaled down
C64U_MAX_PACKETS_PER_FRAME == 2
\* largest frame number sent by the device in a run (frame numbers 0..MaxFrameNum)
MaxFrameNum == 1
\* datagrams of the right length received by the worker in a run
MaxPackets == 3
\* last instant of the clock, in ms
MaxTime == 2
\* calls of c64u_render in a run
MaxRenders == 1
\* calls of c64u_stop_streaming that find the stream running, in a run
MaxStops == 1
MaxCalls == 12
MaxReceived == 5
MaxTicks == 5
\* rounds of one tick, one source frame and one poll of the adaptive strategy
MaxRounds == 12
\* calls of c64u_timing_get_frame_for_obs in a run
MaxSelects == 2
\* format detections in a run
MaxDetections == 3

(***************************************************************************)
(* Protocol constants.                                                     *)
(***************************************************************************)
\* lines carried by one packet (stand-in for C64U_LINES_PER_PACKET)
C64U_LINES_PER_PACKET == 2
\* pixels of one line
C64U_PIXELS_PER_LINE == 384
\* bits of one pixel; the literal of the validation at c64u-video.c:226
BITS_PER_PIXEL == 4
\* wall-clock budget of a frame, in ms (stand-in for C64U_FRAME_TIMEOUT_MS)
C64U_FRAME_TIMEOUT_MS == 1

\* frame heights of the two known formats; the buffers are allocated for PAL
C64U_PAL_HEIGHT == C64U_MAX_PACKETS_PER_FRAME * C64U_LINES_PER_PACKET
C64U_NTSC_HEIGHT == C64U_LINES_PER_PACKET

\* const uint32_t vic_colors[16]; entry i of the C array is vic_colors[i + 1].
\* A 32-bit pixel is written as << high 16 bits, low 16 bits >>.
vic_colors ==
  << <<65280, 0>>, <<65519, 61423>>, <<65332, 12173>>, <<65485, 54378>>,
     <<65444, 13720>>, <<65346, 46156>>, <<65457, 10540>>, <<65373, 61423>>,
     <<65312, 20120>>, <<65280, 14427>>, <<65389, 26577>>, <<65354, 19018>>,
     <<65403, 31611>>, <<65427, 61343>>, <<65519, 27245>>, <<65458, 45746>> >>

SlotIdx == 0 .. (C64U_MAX_PACKETS_PER_FRAME - 1)
FrameNums == 0 .. MaxFrameNum
\* buffer lines allocated by c64u_create: width * height * 4 bytes for PAL
AllocLines == 0 .. (C64U_PAL_HEIGHT - 1)
\* the two pixel buffers allocated by c64u_create
Buffers == {1, 2}

(***************************************************************************)
(* Datagrams.  A payload is represented by one of its packed bytes (two    *)
(* 4-bit pixels); every byte of a modelled payload has that value.         *)
(***************************************************************************)
Payloads == {18, 52}
\* the payloads of the packets that do not start at line 0
RestPayloads == {18}
\* line numbers on the wire: the aligned starts of every slot, one
\* unaligned line, and the first line past the slot table
LineNums == {i * C64U_LINES_PER_PACKET : i \in 0 .. C64U_MAX_PACKETS_PER_FRAME}
              \cup {C64U_LINES_PER_PACKET + 1}

Packet(f, l, last, ppl, lpp, bpp, d) ==
  [frame_num |-> f, line_num |-> l, last_packet |-> last,
   pixels_per_line |-> ppl, lines_per_packet |-> lpp,
   bits_per_pixel |-> bpp, data |-> d]

ValidPackets ==
  { Packet(f, l, last, C64U_PIXELS_PER_LINE, C64U_LINES_PER_PACKET, BITS_PER_PIXEL, d) :
      f \in FrameNums, l \in LineNums, last \in BOOLEAN, d \in Payloads }
  \ { Packet(f, l, last, C64U_PIXELS_PER_LINE, C64U_LINES_PER_PACKET, BITS_PER_PIXEL, d) :
        f \in FrameNums, l \in LineNums \ {0}, last \in BOOLEAN, d \in Payloads \ RestPayloads }

\* datagrams of the right length with header fields off the protocol: the
\* last packet of a one-packet frame, with any of the three fields wrong
InvalidPackets ==
  { Packet(1, 0, TRUE, ppl, lpp, bpp, 18) :
      ppl \in {C64U_PIXELS_PER_LINE, C64U_PIXELS_PER_LINE - 1},
      lpp \in {C64U_LINES_PER_PACKET, 1},
      bpp \in {BITS_PER_PIXEL, 8} }
  \ ValidPackets

NoPacket == Packet(0, 0, FALSE, 0, 0, 0, 0)

VARIABLES
  now,                   \* os_gettime_ns(), in ms
  thread_active,         \* context->thread_active
  streaming,             \* context->streaming
  wpc,                   \* position of the video worker thread
  wsite,                 \* which of the two completion sites the worker is in
  wslot,                 \* loop index i of assemble_frame_to_buffer
  packet,                \* the received packet, while it is still to be added to a frame
  packet_count,          \* static int packet_count
  current_frame,         \* context->current_frame
  last_completed_frame,  \* context->last_completed_frame
  frame_drops,           \* context->frame_drops
  buffer_swaps,          \* context->buffer_swaps
  video_format,          \* format_detected, detected_frame_height, expected_fps, height
  frame_buffer_front,    \* context->frame_buffer_front
  frame_buffer_back,     \* context->frame_buffer_back
  bufmem,                \* the pixels of the two buffers, line by line
  heap_overflow,         \* a write went past the end of a pixel buffer
  frame_ready,           \* context->frame_ready
  frame_mutex,           \* holder of context->frame_mutex
  assembly_mutex,        \* holder of context->assembly_mutex
  cpc,                   \* position of the control thread in c64u_stop_streaming
  stops,                 \* calls of c64u_stop_streaming so far
  ctl,                   \* history: the latest call of the control thread and the calls counted
  rpc,                   \* position of the render thread in c64u_render
  render_calls,          \* static uint32_t render_calls
  frame_to_render,       \* the local frame_to_render of c64u_render, 0 for NULL
  rsrc,                  \* source pointer of the memcpy in progress
  rline,                 \* lines copied so far by the memcpy in progress
  rheight,               \* lines to copy: frame_size read when the memcpy starts
  timing,                \* context->timing and context->timing_initialized
  interp_frames,         \* timing->interpolation.frames[0..2], line by line
  seen,                  \* history: the pixels of the texture drawn last
  published,             \* history: the buffer contents handed over by a swap or a clear
  obs,                   \* history: the latest datagram and how it met the table
  in_order,              \* history: the packets of the table arrived in order, none lost
  swapped,               \* history: frame numbers assembled and swapped since the stream started
  prev_swap,             \* history: frame number of the latest assemble-and-swap, -1 if none
  tcall,                 \* history: the latest call of c64u_timing_should_deliver_frame
  tsel,                  \* history: the set-up of the timing state and the latest call of
                         \* c64u_timing_get_frame_for_obs
  fdet                   \* history: the latest format detection

wvars == << wpc, wsite, wslot, packet, packet_count >>
avars == << current_frame, last_completed_frame, frame_drops, buffer_swaps, video_format >>
bvars == << frame_buffer_front, frame_buffer_back, bufmem, heap_overflow, frame_ready >>
lvars == << frame_mutex, assembly_mutex >>
cvars == << thread_active, streaming, cpc, stops, ctl >>
rvars == << rpc, render_calls, frame_to_render, rsrc, rline, rheight, timing, interp_frames, seen >>
hvars == << obs, in_order, swapped, prev_swap >>
vars == << now, wvars, avars, bvars, lvars, cvars, rvars, hvars, published, tcall, tsel, fdet >>

(***************************************************************************)
(* Frame assembly helpers.                                                 *)
(***************************************************************************)
\* memset(.., 0, ..) of one struct frame_packet
EmptySlot == [received |-> FALSE, line_num |-> 0, lines_per_packet |-> 0, packet_data |-> 0]

init_frame_assembly_Mut(frame_num, t) ==
  [frame_num |-> 0, start_time |-> t, received_packets |-> 0,
   expected_packets |-> 0, packets |-> [i \in SlotIdx |-> EmptySlot]]

\* memset of the table, then frame_num and start_time (c64u-video.c:32-37)
init_frame_assembly(frame_num, t) ==
  [frame_num |-> frame_num, start_time |-> t, received_packets |-> 0,
   expected_packets |-> 0, packets |-> [i \in SlotIdx |-> EmptySlot]]

\* the same for a table of `capacity` slots
init_frame_assembly_in(frame_num, t, capacity) ==
  [init_frame_assembly(frame_num, t) EXCEPT
     !.packets = [i \in 0 .. (capacity - 1) |-> EmptySlot]]

is_frame_complete_Mut(frame) ==
  frame.received_packets > 0

is_frame_complete(frame) ==
  frame.received_packets > 0 /\ frame.received_packets = frame.expected_packets

is_frame_timeout_Mut(frame, t) ==
  (t - frame.start_time) >= C64U_FRAME_TIMEOUT_MS

is_frame_timeout(frame, t) ==
  (t - frame.start_time) > C64U_FRAME_TIMEOUT_MS

preempt_drops_Mut(frame, t, drops) ==
  IF frame.received_packets > 0 THEN drops + 1 ELSE drops

\* context->frame_drops after a packet of another frame number found the
\* frame in progress not complete (c64u-video.c:246-273)
preempt_drops(frame, t, drops) ==
  IF frame.received_packets > 0 /\ is_frame_timeout(frame, t) THEN drops + 1 ELSE drops

\* uint16_t packet_index = line_num / lines_per_packet
packet_index(p) == p.line_num \div p.lines_per_packet

valid_format_Mut(p) ==
  ~ (p.lines_per_packet # C64U_LINES_PER_PACKET
       \/ p.pixels_per_line # C64U_PIXELS_PER_LINE)

\* the validation of the header fields (c64u-video.c:225-226)
valid_format(p) ==
  ~ (p.lines_per_packet # C64U_LINES_PER_PACKET
       \/ p.pixels_per_line # C64U_PIXELS_PER_LINE
       \/ p.bits_per_pixel # BITS_PER_PIXEL)

store_packet_in_Mut(frame, p, capacity) ==
  LET idx == packet_index(p) IN
  IF idx < capacity
  THEN [frame EXCEPT
          !.packets[idx] = IF frame.packets[idx].received THEN @
                           ELSE [received |-> TRUE, line_num |-> p.line_num,
                                 lines_per_packet |-> p.lines_per_packet,
                                 packet_data |-> p.data],
          !.received_packets = @ + 1]
  ELSE frame

\* Add packet to current frame, for a table of `capacity` slots (c64u-video.c:281-291)
store_packet_in(frame, p, capacity) ==
  LET idx == packet_index(p) IN
  IF idx < capacity /\ ~ frame.packets[idx].received
  THEN [frame EXCEPT
          !.packets[idx] = [received |-> TRUE, line_num |-> p.line_num,
                            lines_per_packet |-> p.lines_per_packet,
                            packet_data |-> p.data],
          !.received_packets = @ + 1]
  ELSE frame

\* Add packet to current frame: first writer wins (c64u-video.c:281-291)
store_packet_Mut(frame, p) ==
  LET idx == packet_index(p) IN
  IF idx < C64U_MAX_PACKETS_PER_FRAME
  THEN [frame EXCEPT
          !.packets[idx] = [received |-> TRUE, line_num |-> p.line_num,
                            lines_per_packet |-> p.lines_per_packet,
                            packet_data |-> p.data],
          !.received_packets = IF frame.packets[idx].received THEN @ ELSE @ + 1]
  ELSE frame

store_packet(frame, p) == store_packet_in(frame, p, C64U_MAX_PACKETS_PER_FRAME)

sets_expected_Mut(frame, p) ==
  p.last_packet /\ frame.expected_packets = 0

\* the condition under which the last packet sets expected_packets (c64u-video.c:282, 294)
sets_expected(frame, p) ==
  packet_index(p) < C64U_MAX_PACKETS_PER_FRAME /\ p.last_packet /\ frame.expected_packets = 0

update_expected_Mut(frame, p) ==
  IF packet_index(p) < C64U_MAX_PACKETS_PER_FRAME /\ p.last_packet
  THEN [frame EXCEPT !.expected_packets = packet_index(p) + 1]
  ELSE frame

\* Update expected packet count (c64u-video.c:294-295)
update_expected(frame, p) ==
  IF sets_expected(frame, p)
  THEN [frame EXCEPT !.expected_packets = packet_index(p) + 1]
  ELSE frame

add_packet_Mut(frame, p) ==
  [update_expected(store_packet(frame, p), p) EXCEPT
     !.received_packets = frame.received_packets + 1]

\* the packet added to the frame in progress
add_packet(frame, p) == update_expected(store_packet(frame, p), p)

\* the same for a table of `capacity` slots (c64u-video.c:281-295)
add_packet_in(frame, p, capacity) ==
  LET stored == store_packet_in(frame, p, capacity) IN
  IF packet_index(p) < capacity /\ p.last_packet /\ stored.expected_packets = 0
  THEN [stored EXCEPT !.expected_packets = packet_index(p) + 1]
  ELSE stored

format_for_height_Mut(fmt, frame_height, pal_height, ntsc_height) ==
  IF ~ fmt.format_detected \/ fmt.detected_frame_height # frame_height
  THEN [format_detected |-> TRUE,
        detected_frame_height |-> frame_height,
        expected_fps |-> IF frame_height = pal_height THEN 50
                         ELSE IF frame_height = ntsc_height THEN 60
                         ELSE IF frame_height < 250 THEN 60 ELSE 50,
        height |-> frame_height]
  ELSE fmt

\* the format for the height that a last packet shows, with the two heights
\* that the header names C64U_PAL_HEIGHT and C64U_NTSC_HEIGHT (c64u-video.c:299-325)
format_for_height(fmt, frame_height, pal_height, ntsc_height) ==
  IF ~ fmt.format_detected \/ fmt.detected_frame_height # frame_height
  THEN [format_detected |-> TRUE,
        detected_frame_height |-> frame_height,
        expected_fps |-> IF frame_height = pal_height THEN 50
                         ELSE IF frame_height = ntsc_height THEN 60
                         ELSE IF frame_height <= 250 THEN 60 ELSE 50,
        height |-> frame_height]
  ELSE fmt

\* Detect PAL vs NTSC format from frame height (c64u-video.c:297-326)
detect_format(fmt, frame, p) ==
  IF sets_expected(store_packet(frame, p), p)
  THEN format_for_height(fmt, p.line_num + p.lines_per_packet,
                         C64U_PAL_HEIGHT, C64U_NTSC_HEIGHT)
  ELSE fmt

\* no format detection yet
NoDetection ==
  [calls |-> 0, frame_height |-> 0,
   pre |-> [format_detected |-> FALSE, detected_frame_height |-> 0,
            expected_fps |-> 50, height |-> 0]]

(***************************************************************************)
(* Colour conversion and the double buffer.                                *)
(***************************************************************************)
convert_byte_Mut(b) == << vic_colors[(b \div 16) + 1], vic_colors[(b % 16) + 1] >>

\* one packed byte expanded to two pixels: low nibble first (c64u-video.c:78-83)
convert_byte(b) == << vic_colors[(b % 16) + 1], vic_colors[(b \div 16) + 1] >>

\* a pixel of zero bytes, as left by memset
ZeroPixel == << 0, 0 >>
\* a line of zero bytes, represented by its first two pixels
ZeroLine == << ZeroPixel, ZeroPixel >>

\* the lines of the buffer that slot s of the frame is converted into
slot_lines(s, height) ==
  { s.line_num + line : line \in { k \in 0 .. (s.lines_per_packet - 1) :
                                     s.line_num + k < height } }

\* one iteration of the loop over the slot table in assemble_frame_to_buffer
assemble_slot(mem, s, height) ==
  IF ~ s.received THEN mem
  ELSE [l \in AllocLines |->
          IF l \in slot_lines(s, height) THEN convert_byte(s.packet_data) ELSE mem[l]]

\* that iteration writes past the allocation
assemble_overflows(s, height) ==
  s.received /\ \E l \in slot_lines(s, height) : l \notin AllocLines

\* the guard of both completion sites: "only if not already completed"
not_already_completed_Mut(last, frame) == TRUE

not_already_completed(last, frame) == last # frame.frame_num

(***************************************************************************)
(* The observer.  It reads the raw header fields and the table as they     *)
(* are when a datagram arrives, and records in the history variables what  *)
(* kind of arrival this was.  No action of the program reads them.         *)
(***************************************************************************)
Observe(frame, p, t) ==
  LET valid == /\ p.lines_per_packet = C64U_LINES_PER_PACKET
               /\ p.pixels_per_line = C64U_PIXELS_PER_LINE
               /\ p.bits_per_pixel = BITS_PER_PIXEL
      idx == IF valid THEN p.line_num \div C64U_LINES_PER_PACKET ELSE 0
      differs == frame.frame_num # p.frame_num
      complete == frame.received_packets > 0
                    /\ frame.received_packets = frame.expected_packets
  IN [frame_num |-> p.frame_num,
      idx |-> idx,
      last |-> p.last_packet,
      prev |-> IF ~ valid THEN "none"
               ELSE IF ~ differs THEN "same"
               ELSE IF frame.received_packets = 0 THEN "fresh"
               ELSE IF complete THEN "complete"
               ELSE IF t - frame.start_time > C64U_FRAME_TIMEOUT_MS THEN "dropped"
               ELSE "abandoned",
      slot |-> IF ~ valid THEN "invalid"
               ELSE IF idx >= C64U_MAX_PACKETS_PER_FRAME THEN "out_of_range"
               ELSE IF ~ differs /\ frame.packets[idx].received THEN "duplicate"
               ELSE "stored"]

NoObs == [frame_num |-> 0, idx |-> 0, last |-> FALSE, prev |-> "none", slot |-> "none"]
WrongLengthObs == [NoObs EXCEPT !.slot = "wrong_length"]
\* recv returned -1 with EAGAIN or EWOULDBLOCK
WouldBlockObs == [NoObs EXCEPT !.slot = "would_block"]
\* recv returned -1 with another error
RecvErrorObs == [NoObs EXCEPT !.slot = "recv_error"]

\* the packets of the table keep arriving as indices 0, 1, 2, ... with no
\* packet after the one that carries the last-packet flag
ObserveOrder(frame, p, was) ==
  LET idx == p.line_num \div C64U_LINES_PER_PACKET IN
  IF frame.frame_num # p.frame_num THEN idx = 0
  ELSE was /\ idx = frame.received_packets /\ frame.expected_packets = 0

(***************************************************************************)
(* The timing engine (c64u-timing.c) and the render call.                  *)
(***************************************************************************)
\* c64u_timing_strategy_t
Strategies == {"PASSTHROUGH", "ADAPTIVE", "INTERPOLATION", "VSYNC"}

\* a line of a bmalloc'ed buffer that was never written
UninitLine == << << -1, -1 >>, << -1, -1 >> >>

\* context->timing == NULL, timing_initialized == false
\* frame_debt is a double; the model counts it in halves, which the code's
\* thresholds (2.0) and steps (1.0) hit exactly.  frames[i] tells whether
\* interpolation.frames[i] is non-null, ring_blocks how many blocks that
\* c64u_timing_init got from bmalloc are not freed yet.
NoTiming ==
  [initialized |-> FALSE, strategy |-> "PASSTHROUGH", alloc_lines |-> 0,
   obs_frame_interval |-> 0, frames_received |-> 0, frames_delivered |-> 0,
   last_obs_frame_time |-> 0, write_index |-> 0, buffer_ready |-> FALSE,
   target_fps |-> 0, frame_debt |-> 0, frames_dropped |-> 0, frames_duplicated |-> 0,
   frames |-> [i \in 0 .. 2 |-> FALSE], ring_blocks |-> 0]

\* the value 1.0 of a double counted in halves
DEBT_ONE == 2

\* c64u_init_timing_system with the strategy of the settings: c64u_timing_init
\* zeroes the state and allocates the interpolation frames for the current height
c64u_timing_init(strategy, height) ==
  [NoTiming EXCEPT !.initialized = TRUE, !.strategy = strategy,
                   !.obs_frame_interval = 1000 \div 50,
                   !.target_fps = 50,
                   !.alloc_lines = IF strategy = "INTERPOLATION" THEN height ELSE 0,
                   !.frames = [i \in 0 .. 2 |-> strategy = "INTERPOLATION"],
                   !.ring_blocks = IF strategy = "INTERPOLATION" THEN 3 ELSE 0]

c64u_timing_should_deliver_frame_NoWarmup(t, n) ==
  IF t.strategy = "PASSTHROUGH" THEN TRUE
  ELSE IF t.last_obs_frame_time = 0 \/ t.frames_received < 5 THEN TRUE
  ELSE LET obs_elapsed == n - t.last_obs_frame_time IN
       \/ obs_elapsed >= t.obs_frame_interval \div 2
       \/ t.frames_delivered <= obs_elapsed \div t.obs_frame_interval

c64u_timing_should_deliver_frame_Strict(t, n) ==
  IF t.strategy = "PASSTHROUGH" THEN TRUE
  ELSE IF t.frames_delivered < 10 THEN TRUE
  ELSE IF t.last_obs_frame_time = 0 \/ t.frames_received < 5 THEN TRUE
  ELSE LET obs_elapsed == n - t.last_obs_frame_time IN
       \/ obs_elapsed > t.obs_frame_interval \div 2
       \/ t.frames_delivered <= obs_elapsed \div t.obs_frame_interval

c64u_timing_should_deliver_frame_Both(t, n) ==
  IF t.strategy = "PASSTHROUGH" THEN TRUE
  ELSE IF t.frames_delivered < 10 THEN TRUE
  ELSE IF t.last_obs_frame_time = 0 /\ t.frames_received < 5 THEN TRUE
  ELSE LET obs_elapsed == n - t.last_obs_frame_time IN
       \/ obs_elapsed >= t.obs_frame_interval \div 2
       \/ t.frames_delivered <= obs_elapsed \div t.obs_frame_interval

\* the result of c64u_timing_should_deliver_frame
c64u_timing_should_deliver_frame(t, n) ==
  IF t.strategy = "PASSTHROUGH" THEN TRUE
  ELSE IF t.frames_delivered < 10 THEN TRUE
  ELSE IF t.last_obs_frame_time = 0 \/ t.frames_received < 5 THEN TRUE
  ELSE LET obs_elapsed == n - t.last_obs_frame_time IN
       \/ obs_elapsed >= t.obs_frame_interval \div 2
       \/ t.frames_delivered <= obs_elapsed \div t.obs_frame_interval

c64u_timing_on_obs_frame_delivered(t, n) ==
  [t EXCEPT !.frames_delivered = @ + 1,
            !.frames_duplicated =
               IF t.last_obs_frame_time > 0
                    /\ n - t.last_obs_frame_time < t.obs_frame_interval \div 2
               THEN @ + 1 ELSE @,
            !.last_obs_frame_time = n]

\* (c64_rate / obs_rate) - 1.0 of the frame debt update, in halves and rounded
\* down to a half: c64_rate is frames_received per obs_elapsed
debt_step(t, obs_elapsed) ==
  (DEBT_ONE * t.frames_received * 1000) \div (obs_elapsed * t.target_fps) - DEBT_ONE

c64u_timing_should_deliver_frame_state_Eager(t, n) ==
  IF t.strategy = "PASSTHROUGH" \/ t.frames_delivered < 10 THEN t
  ELSE IF t.last_obs_frame_time = 0 \/ t.frames_received < 5
  THEN [t EXCEPT !.last_obs_frame_time = n]
  ELSE LET obs_elapsed == n - t.last_obs_frame_time IN
       IF t.frames_received > 10 /\ obs_elapsed > t.obs_frame_interval
       THEN [t EXCEPT !.frame_debt = @ + debt_step(t, obs_elapsed)]
       ELSE t

\* the timing state that c64u_timing_should_deliver_frame leaves: the branch of
\* the initial frames stores now as the time of the last delivery; the frame
\* debt is updated only on the path that has not returned for an elapsed time
\* of half an interval or more
c64u_timing_should_deliver_frame_state(t, n) ==
  IF t.strategy = "PASSTHROUGH" \/ t.frames_delivered < 10 THEN t
  ELSE IF t.last_obs_frame_time = 0 \/ t.frames_received < 5
  THEN [t EXCEPT !.last_obs_frame_time = n]
  ELSE LET obs_elapsed == n - t.last_obs_frame_time IN
       IF obs_elapsed >= t.obs_frame_interval \div 2 THEN t
       ELSE IF t.frames_received > 10 /\ obs_elapsed > t.obs_frame_interval
       THEN [t EXCEPT !.frame_debt = @ + debt_step(t, obs_elapsed)]
       ELSE t

\* c64u_timing_on_c64_frame_received (last_c64_frame_time is never read)
c64u_timing_on_c64_frame_received(t) ==
  [t EXCEPT !.frames_received = @ + 1]

\* c64u_timing_init for a target frame rate of OBS other than 50 Hz
c64u_timing_init_fps(strategy, target_fps, height) ==
  [c64u_timing_init(strategy, height) EXCEPT !.obs_frame_interval = 1000 \div target_fps,
                                            !.target_fps = target_fps]

c64u_timing_init_alloc_Mut(strategy, height, fail) ==
  LET failed == strategy = "INTERPOLATION" /\ fail \in 0 .. 2
      freed == { j \in 0 .. 2 : j < fail - 1 }
  IN IF failed
     THEN [c64u_timing_init(strategy, height) EXCEPT
             !.strategy = "ADAPTIVE",
             !.alloc_lines = 0,
             !.frames = [i \in 0 .. 2 |-> i < fail /\ i \notin freed],
             !.ring_blocks = fail - Cardinality(freed)]
     ELSE c64u_timing_init(strategy, height)

\* c64u_timing_init when bmalloc returns NULL for interpolation.frames[fail]
\* (fail = 3: every bmalloc succeeds): the frames allocated before are freed
\* and set to NULL, the strategy falls back (c64u-timing.c:25-38)
c64u_timing_init_alloc(strategy, height, fail) ==
  LET failed == strategy = "INTERPOLATION" /\ fail \in 0 .. 2
      freed == { j \in 0 .. 2 : j < fail }
  IN IF failed
     THEN [c64u_timing_init(strategy, height) EXCEPT
             !.strategy = "ADAPTIVE",
             !.alloc_lines = 0,
             !.frames = [i \in 0 .. 2 |-> i < fail /\ i \notin freed],
             !.ring_blocks = fail - Cardinality(freed)]
     ELSE c64u_timing_init(strategy, height)

\* no timing state set up and no call of c64u_timing_get_frame_for_obs yet
NoSel ==
  [requested |-> "PASSTHROUGH", fail |-> 3, calls |-> 0, pre |-> NoTiming,
   front |-> 0, ret |-> 0, snaps |-> 0]

\* no call of c64u_timing_should_deliver_frame yet
NoCall == [calls |-> 0, pre |-> NoTiming, at |-> 0, deliver |-> TRUE]

\* the value of a frame pointer: 1, 2 the pixel buffers, 3 + i interpolation frame i
InterpFrame(i) == 3 + i

c64u_timing_get_frame_for_obs_state_Mut(t) ==
  IF t.strategy = "ADAPTIVE"
  THEN IF t.frame_debt >= 2 * DEBT_ONE
       THEN [t EXCEPT !.frame_debt = @ - DEBT_ONE, !.frames_dropped = @ + 1]
       ELSE IF t.frame_debt < - (2 * DEBT_ONE)
       THEN [t EXCEPT !.frame_debt = @ + DEBT_ONE, !.frames_duplicated = @ + 1]
       ELSE t
  ELSE IF t.strategy = "INTERPOLATION"
  THEN LET next_write == (t.write_index + 1) % 3 IN
       IF t.frames[next_write]
       THEN [t EXCEPT !.write_index = next_write, !.buffer_ready = TRUE]
       ELSE t
  ELSE t

\* the timing state that c64u_timing_get_frame_for_obs leaves
\* (c64u-timing.c:139-192): the debt steps of the adaptive strategy, the write
\* index of the interpolation ring
c64u_timing_get_frame_for_obs_state(t) ==
  IF t.strategy = "ADAPTIVE"
  THEN IF t.frame_debt > 2 * DEBT_ONE
       THEN [t EXCEPT !.frame_debt = @ - DEBT_ONE, !.frames_dropped = @ + 1]
       ELSE IF t.frame_debt < - (2 * DEBT_ONE)
       THEN [t EXCEPT !.frame_debt = @ + DEBT_ONE, !.frames_duplicated = @ + 1]
       ELSE t
  ELSE IF t.strategy = "INTERPOLATION"
  THEN LET next_write == (t.write_index + 1) % 3 IN
       IF t.frames[next_write]
       THEN [t EXCEPT !.write_index = next_write, !.buffer_ready = TRUE]
       ELSE t
  ELSE t

\* the pointer that c64u_timing_get_frame_for_obs returns
c64u_timing_get_frame_for_obs(t, front) ==
  LET t1 == c64u_timing_get_frame_for_obs_state(t) IN
  IF t.strategy = "INTERPOLATION" /\ t1.buffer_ready
  THEN InterpFrame(t1.write_index)
  ELSE front

\* the lines behind a frame pointer
FrameMemory(ptr) ==
  IF ptr \in Buffers THEN bufmem[ptr] ELSE interp_frames[ptr - 3]

\* nothing drawn from a frame yet
NoSeen == << >>

\* the lines a texture of the current height takes from a frame
TextureOf(ptr, height) ==
  [l \in {k \in AllocLines : k < height} |-> FrameMemory(ptr)[l]]

(***************************************************************************)
(* The initial state: c64u_create has returned, with the stream started.   *)
(***************************************************************************)
\* the context after c64u_create and c64u_start_streaming, with `frame` the
\* zeroed table of the frame in progress
\* no call of the control thread since c64u_create returned
NoControl == [call |-> "none", n |-> 0]

InitWith(frame) ==
  /\ now = 0
  /\ thread_active = TRUE
  /\ streaming = TRUE
  /\ ctl = NoControl
  /\ wpc = "recv"
  /\ wsite = "none"
  /\ wslot = 0
  /\ packet = NoPacket
  /\ packet_count = 0
  /\ current_frame = frame
  /\ last_completed_frame = 0
  /\ frame_drops = 0
  /\ buffer_swaps = 0
  /\ video_format = [format_detected |-> FALSE, detected_frame_height |-> 0,
                     expected_fps |-> 50, height |-> C64U_PAL_HEIGHT]
  /\ frame_buffer_front = 1
  /\ frame_buffer_back = 2
  /\ bufmem = [b \in Buffers |-> [l \in AllocLines |-> ZeroLine]]
  /\ heap_overflow = FALSE
  /\ frame_ready = FALSE
  /\ frame_mutex = "free"
  /\ assembly_mutex = "free"
  /\ cpc = "idle"
  /\ stops = 0
  /\ rpc = "idle"
  /\ render_calls = 0
  /\ frame_to_render = 0
  /\ rsrc = 0
  /\ rline = 0
  /\ rheight = 0
  /\ timing = NoTiming
  /\ interp_frames = [i \in 0 .. 2 |-> [l \in AllocLines |-> UninitLine]]
  /\ seen = NoSeen
  /\ published = {[l \in AllocLines |-> ZeroLine]}
  /\ obs = NoObs
  /\ in_order = TRUE
  /\ swapped = {}
  /\ prev_swap = -1
  /\ tcall = NoCall
  /\ tsel = NoSel
  /\ fdet = NoDetection

Init == InitWith(init_frame_assembly(0, 0))

(***************************************************************************)
(* The clock.                                                              *)
(***************************************************************************)
Tick ==
  /\ now < MaxTime
  /\ now' = now + 1
  /\ UNCHANGED << wvars, avars, bvars, lvars, cvars, rvars, hvars, published, tcall, tsel,
                  fdet >>

(***************************************************************************)
(* The video worker thread, video_thread_func.                             *)
(***************************************************************************)
AddPacketAndCheck_Mut(frame, p) ==
  /\ current_frame' = add_packet(frame, p)
  /\ video_format' = detect_format(video_format, frame, p)
  /\ packet' = NoPacket
  /\ wpc' = "recv" /\ wsite' = "none" /\ assembly_mutex' = "free"

\* "Add packet to current frame" up to the completion check (c64u-video.c:280-330)
\* on the table `frame`; a complete frame takes the worker to the frame lock
AddPacketAndCheck(frame, p) ==
  LET frame2 == add_packet(frame, p) IN
  /\ current_frame' = frame2
  /\ video_format' = detect_format(video_format, frame, p)
  /\ packet' = NoPacket
  /\ IF packet_index(p) < C64U_MAX_PACKETS_PER_FRAME /\ is_frame_complete(frame2)
     THEN wpc' = "lock" /\ wsite' = "complete" /\ assembly_mutex' = "video"
     ELSE wpc' = "recv" /\ wsite' = "none" /\ assembly_mutex' = "free"

\* the worker is in recv: it found thread_active set at the head of the loop
\* ("recv"), or it was already inside recv when the flag was cleared ("inrecv")
Receiving == (wpc = "recv" /\ thread_active) \/ wpc = "inrecv"

\* recv returned a datagram of another length than C64U_VIDEO_PACKET_SIZE: "continue"
RecvWrongLength ==
  /\ Receiving
  /\ wpc' = "recv"
  /\ obs' = WrongLengthObs
  /\ UNCHANGED << now, tcall, tsel, fdet, wsite, wslot, packet, packet_count, avars, bvars, lvars, cvars,
                  rvars, in_order, swapped, prev_swap, published >>

RecvWouldBlock_Mut ==
  /\ Receiving
  /\ wpc' = "exited"
  /\ obs' = WouldBlockObs
  /\ UNCHANGED << now, tcall, tsel, fdet, wsite, wslot, packet, packet_count, avars, bvars, lvars, cvars,
                  rvars, in_order, swapped, prev_swap, published >>

\* recv returned -1 with EAGAIN or EWOULDBLOCK: sleep and "continue" (c64u-video.c:101-111)
RecvWouldBlock ==
  /\ Receiving
  /\ wpc' = "recv"
  /\ obs' = WouldBlockObs
  /\ UNCHANGED << now, tcall, tsel, fdet, wsite, wslot, packet, packet_count, avars, bvars, lvars, cvars,
                  rvars, in_order, swapped, prev_swap, published >>

\* recv returned a datagram of C64U_VIDEO_PACKET_SIZE bytes (c64u-video.c:117-330)
RecvPacket(p) ==
  /\ Receiving
  /\ packet_count < MaxPackets
  /\ packet_count' = packet_count + 1
  /\ obs' = Observe(current_frame, p, now)
  /\ UNCHANGED << now, tcall, tsel, fdet, wslot, last_completed_frame, buffer_swaps, bvars, frame_mutex,
                  cvars, rvars, swapped, prev_swap, published >>
  /\ IF ~ valid_format(p)
     THEN /\ wpc' = "recv"
          /\ UNCHANGED << wsite, packet, assembly_mutex, current_frame, frame_drops,
                          video_format, in_order >>
     ELSE
       /\ assembly_mutex = "free"
       /\ in_order' = ObserveOrder(current_frame, p, in_order)
       /\ IF current_frame.frame_num # p.frame_num
          THEN IF current_frame.received_packets > 0 /\ is_frame_complete(current_frame)
               THEN \* the previous frame is complete: take the frame lock first
                    /\ wpc' = "lock" /\ wsite' = "preempt" /\ assembly_mutex' = "video"
                    /\ packet' = p
                    /\ UNCHANGED << current_frame, frame_drops, video_format >>
               ELSE /\ frame_drops' = preempt_drops(current_frame, now, frame_drops)
                    /\ AddPacketAndCheck(init_frame_assembly(p.frame_num, now), p)
          ELSE /\ frame_drops' = frame_drops
               /\ AddPacketAndCheck(current_frame, p)

\* pthread_mutex_lock(&context->frame_mutex) at either completion site,
\* then the guard on last_completed_frame
WorkerLock ==
  /\ wpc = "lock"
  /\ frame_mutex = "free"
  /\ frame_mutex' = "video"
  /\ wslot' = 0
  /\ wpc' = IF not_already_completed(last_completed_frame, current_frame)
            THEN "assemble" ELSE "unlock"
  /\ UNCHANGED << now, tcall, tsel, fdet, wsite, packet, packet_count, avars, bvars, assembly_mutex,
                  cvars, rvars, hvars, published >>

\* one slot of the table converted into the back buffer
WorkerAssemble ==
  /\ wpc = "assemble"
  /\ wslot < C64U_MAX_PACKETS_PER_FRAME
  /\ bufmem' = [bufmem EXCEPT ![frame_buffer_back] =
                  assemble_slot(@, current_frame.packets[wslot], video_format.height)]
  /\ heap_overflow' = (heap_overflow
                         \/ assemble_overflows(current_frame.packets[wslot], video_format.height))
  /\ wslot' = wslot + 1
  /\ wpc' = IF wslot + 1 = C64U_MAX_PACKETS_PER_FRAME THEN "swap" ELSE "assemble"
  /\ UNCHANGED << now, tcall, tsel, fdet, wsite, packet, packet_count, avars,
                  frame_buffer_front, frame_buffer_back, frame_ready,
                  lvars, cvars, rvars, hvars, published >>

WorkerSwap_Mut ==
  /\ wpc = "swap"
  /\ frame_buffer_front' = frame_buffer_back
  /\ frame_buffer_back' = frame_buffer_back
  /\ frame_ready' = TRUE
  /\ last_completed_frame' = current_frame.frame_num
  /\ buffer_swaps' = buffer_swaps + 1
  /\ swapped' = swapped \cup {current_frame.frame_num}
  /\ prev_swap' = current_frame.frame_num
  /\ published' = published \cup {bufmem[frame_buffer_back]}
  /\ wpc' = "unlock"
  /\ UNCHANGED << now, tcall, tsel, fdet, wsite, wslot, packet, packet_count,
                  current_frame, frame_drops, video_format, bufmem, heap_overflow,
                  lvars, cvars, rvars, obs, in_order >>

\* swap_frame_buffers and the bookkeeping of a completed frame
WorkerSwap ==
  /\ wpc = "swap"
  /\ frame_buffer_front' = frame_buffer_back
  /\ frame_buffer_back' = frame_buffer_front
  /\ frame_ready' = TRUE
  /\ last_completed_frame' = current_frame.frame_num
  /\ buffer_swaps' = buffer_swaps + 1
  /\ swapped' = swapped \cup {current_frame.frame_num}
  /\ prev_swap' = current_frame.frame_num
  /\ published' = published \cup {bufmem[frame_buffer_back]}
  /\ wpc' = "unlock"
  /\ UNCHANGED << now, tcall, tsel, fdet, wsite, wslot, packet, packet_count,
                  current_frame, frame_drops, video_format, bufmem, heap_overflow,
                  lvars, cvars, rvars, obs, in_order >>

\* pthread_mutex_unlock(&context->frame_mutex) and what follows it at the site
WorkerUnlock ==
  /\ wpc = "unlock"
  /\ frame_mutex' = "free"
  /\ IF wsite = "preempt"
     THEN \* Start new frame, then add the packet to it
          AddPacketAndCheck(init_frame_assembly(packet.frame_num, now), packet)
     ELSE \* Reset for next frame
          /\ current_frame' = init_frame_assembly(0, now)
          /\ wpc' = "recv" /\ wsite' = "none" /\ assembly_mutex' = "free"
          /\ UNCHANGED << video_format, packet >>
  /\ in_order' = (wsite # "preempt")
  /\ UNCHANGED << now, tcall, tsel, fdet, wslot, packet_count, last_completed_frame, frame_drops,
                  buffer_swaps, bvars, cvars, rvars, obs, swapped, prev_swap, published >>

Next ==
  \/ Tick
  \/ RecvWrongLength
  \/ \E p \in ValidPackets \cup InvalidPackets : RecvPacket(p)
  \/ WorkerLock
  \/ WorkerAssemble
  \/ WorkerSwap
  \/ WorkerUnlock

\* the video worker alone, with the clock
Spec == Init /\ [][Next]_vars

(***************************************************************************)
(* The whole source: the video worker, the render call of the consumer     *)
(* and the control thread that stops and restarts the stream.              *)
(***************************************************************************)
\* the datagrams of the whole-source runs: one-packet frames
SysPackets ==
  { Packet(f, 0, TRUE, C64U_PIXELS_PER_LINE, C64U_LINES_PER_PACKET, BITS_PER_PIXEL, d) :
      f \in FrameNums, d \in Payloads }

\* recv failed with another error than EAGAIN: "break" (c64u-video.c:103-115)
RecvError ==
  /\ Receiving
  /\ wpc' = "exited"
  /\ obs' = RecvErrorObs
  /\ UNCHANGED << now, tcall, tsel, fdet, wsite, wslot, packet, packet_count, avars, bvars, lvars, cvars,
                  rvars, in_order, swapped, prev_swap, published >>

WorkerExit_Mut ==
  /\ wpc = "recv" /\ ~ thread_active
  /\ wpc' = "inrecv"
  /\ UNCHANGED << now, tcall, tsel, fdet, wsite, wslot, packet, packet_count, avars, bvars, lvars, cvars,
                  rvars, hvars, published >>

\* while (context->thread_active) finds the flag cleared
WorkerExit ==
  /\ wpc = "recv" /\ ~ thread_active
  /\ wpc' = "exited"
  /\ UNCHANGED << now, tcall, tsel, fdet, wsite, wslot, packet, packet_count, avars, bvars, lvars, cvars,
                  rvars, hvars, published >>

RenderBegin_Mut ==
  /\ rpc = "idle"
  /\ render_calls < MaxRenders
  /\ render_calls' = render_calls + 1
  /\ \E s \in Strategies :
       LET t1 == IF video_format.format_detected /\ ~ timing.initialized
                 THEN c64u_timing_init(s, video_format.height) ELSE timing
           timed == t1.initialized /\ t1.strategy # "PASSTHROUGH"
       IN IF ~ (streaming /\ frame_ready)
          THEN \* the coloured background
               /\ timing' = t1
               /\ UNCHANGED << rpc, frame_to_render, rsrc, rline, rheight >>
          ELSE IF timed /\ c64u_timing_should_deliver_frame(t1, now)
                    /\ t1.strategy = "INTERPOLATION" /\ t1.alloc_lines > 0
          THEN \* c64u_timing_get_frame_for_obs starts the memcpy of the front buffer
               /\ timing' = c64u_timing_should_deliver_frame_state(t1, now)
               /\ rpc' = "copy"
               /\ rsrc' = frame_buffer_front
               /\ rline' = 0
               /\ rheight' = video_format.height
               /\ UNCHANGED frame_to_render
          ELSE IF timed /\ ~ c64u_timing_should_deliver_frame(t1, now)
          THEN /\ timing' = c64u_timing_should_deliver_frame_state(t1, now)
               /\ frame_to_render' = 0
               /\ UNCHANGED << rpc, rsrc, rline, rheight >>
          ELSE /\ timing' = IF ~ timed THEN t1
                            ELSE c64u_timing_on_obs_frame_delivered(
                                   c64u_timing_get_frame_for_obs_state(
                                     c64u_timing_should_deliver_frame_state(t1, now)), now)
               /\ frame_to_render' = frame_buffer_front
               /\ rpc' = "lock"
               /\ UNCHANGED << rsrc, rline, rheight >>
  /\ UNCHANGED << now, tcall, tsel, fdet, wvars, avars, bvars, lvars, cvars, interp_frames, seen, hvars,
                  published >>

\* c64u_render up to the choice of frame_to_render (c64u-source.c:487-528)
RenderBegin ==
  /\ rpc = "idle"
  /\ render_calls < MaxRenders
  /\ render_calls' = render_calls + 1
  /\ \E s \in Strategies :
       LET t1 == IF video_format.format_detected /\ ~ timing.initialized
                 THEN c64u_timing_init(s, video_format.height) ELSE timing
           timed == t1.initialized /\ t1.strategy # "PASSTHROUGH"
       IN IF ~ (streaming /\ frame_ready)
          THEN \* the coloured background
               /\ timing' = t1
               /\ UNCHANGED << rpc, frame_to_render, rsrc, rline, rheight >>
          ELSE IF timed /\ c64u_timing_should_deliver_frame(t1, now)
                    /\ t1.strategy = "INTERPOLATION" /\ t1.alloc_lines > 0
          THEN \* c64u_timing_get_frame_for_obs starts the memcpy of the front buffer
               /\ timing' = c64u_timing_should_deliver_frame_state(t1, now)
               /\ rpc' = "copy"
               /\ rsrc' = frame_buffer_front
               /\ rline' = 0
               /\ rheight' = video_format.height
               /\ UNCHANGED frame_to_render
          ELSE /\ timing' = IF ~ timed THEN t1
                            ELSE IF c64u_timing_should_deliver_frame(t1, now)
                            THEN c64u_timing_on_obs_frame_delivered(
                                   c64u_timing_get_frame_for_obs_state(
                                     c64u_timing_should_deliver_frame_state(t1, now)), now)
                            ELSE c64u_timing_should_deliver_frame_state(t1, now)
               /\ frame_to_render' = frame_buffer_front
               /\ rpc' = "lock"
               /\ UNCHANGED << rsrc, rline, rheight >>
  /\ UNCHANGED << now, tcall, tsel, fdet, wvars, avars, bvars, lvars, cvars, interp_frames, seen, hvars,
                  published >>

\* one line of the memcpy into interpolation.frames[next_write]; after the last
\* line the snapshot becomes frame_to_render (c64u-timing.c:165-178)
RenderCopy ==
  LET next_write == (timing.write_index + 1) % 3 IN
  /\ rpc = "copy"
  /\ IF rline \in AllocLines /\ rline < timing.alloc_lines
     THEN /\ interp_frames' = [interp_frames EXCEPT ![next_write][rline] = bufmem[rsrc][rline]]
          /\ UNCHANGED heap_overflow
     ELSE /\ heap_overflow' = TRUE
          /\ UNCHANGED interp_frames
  /\ rline' = rline + 1
  /\ IF rline + 1 >= rheight
     THEN /\ timing' = c64u_timing_on_obs_frame_delivered(
                          [timing EXCEPT !.write_index = next_write, !.buffer_ready = TRUE], now)
          /\ frame_to_render' = InterpFrame(next_write)
          /\ rpc' = "lock"
     ELSE UNCHANGED << timing, frame_to_render, rpc >>
  /\ UNCHANGED << now, tcall, tsel, fdet, wvars, avars, frame_buffer_front, frame_buffer_back, bufmem,
                  frame_ready, lvars, cvars, render_calls, rsrc, rheight, seen, hvars,
                  published >>

\* pthread_mutex_lock(&context->frame_mutex) in c64u_render
RenderLock ==
  /\ rpc = "lock"
  /\ frame_mutex = "free"
  /\ frame_mutex' = "render"
  /\ rpc' = "draw"
  /\ UNCHANGED << now, tcall, tsel, fdet, wvars, avars, bvars, assembly_mutex, cvars, render_calls,
                  frame_to_render, rsrc, rline, rheight, timing, interp_frames, seen,
                  hvars, published >>

RenderDraw_Mut ==
  /\ rpc = "draw"
  /\ seen' = TextureOf(frame_to_render, video_format.height)
  /\ rpc' = "idle"
  /\ UNCHANGED << now, tcall, tsel, fdet, wvars, avars, bvars, lvars, cvars, render_calls,
                  frame_to_render, rsrc, rline, rheight, timing, interp_frames,
                  hvars, published >>

\* gs_texture_create from frame_to_render, the draw, and the unlock
RenderDraw ==
  /\ rpc = "draw"
  /\ seen' = TextureOf(frame_to_render, video_format.height)
  /\ frame_mutex' = "free"
  /\ rpc' = "idle"
  /\ UNCHANGED << now, tcall, tsel, fdet, wvars, avars, bvars, assembly_mutex, cvars, render_calls,
                  frame_to_render, rsrc, rline, rheight, timing, interp_frames,
                  hvars, published >>

\* c64u_stop_streaming up to the join (c64u-source.c:419-446).  A worker that
\* waits for a datagram is either at the head of its loop or inside recv:
\* which of the two it is shows only now that the flag is cleared
StopBegin ==
  /\ cpc = "idle" /\ streaming
  /\ stops < MaxStops
  /\ stops' = stops + 1
  /\ streaming' = FALSE
  /\ thread_active' = FALSE
  /\ cpc' = "join"
  /\ wpc' \in (IF wpc = "recv" /\ thread_active THEN {"recv", "inrecv"} ELSE {wpc})
  /\ UNCHANGED << now, tcall, tsel, fdet, wsite, wslot, packet, packet_count, avars, bvars, lvars, rvars,
                  hvars, published, ctl >>

StopJoin_Mut ==
  /\ cpc = "join"
  /\ cpc' = "clear"
  /\ UNCHANGED << now, tcall, tsel, fdet, wvars, avars, bvars, lvars, thread_active, streaming, stops, ctl,
                  rvars, hvars, published >>

\* pthread_join(context->video_thread) returns
StopJoin ==
  /\ cpc = "join"
  /\ wpc = "exited"
  /\ cpc' = "clear"
  /\ UNCHANGED << now, tcall, tsel, fdet, wvars, avars, bvars, lvars, thread_active, streaming, stops, ctl,
                  rvars, hvars, published >>

\* "Reset frame state and clear buffers", under the frame lock (c64u-source.c:457-469)
StopClear ==
  LET cleared(mem) == [l \in AllocLines |->
                         IF l < video_format.height THEN ZeroLine ELSE mem[l]] IN
  /\ cpc = "clear"
  /\ frame_mutex = "free"
  /\ frame_ready' = FALSE
  /\ bufmem' = [b \in Buffers |-> cleared(bufmem[b])]
  /\ heap_overflow' = (heap_overflow \/ video_format.height > C64U_PAL_HEIGHT)
  /\ published' = published \cup {cleared(bufmem[b]) : b \in Buffers}
  /\ cpc' = "reset"
  /\ UNCHANGED << now, tcall, tsel, fdet, wvars, avars, frame_buffer_front, frame_buffer_back, lvars,
                  thread_active, streaming, stops, ctl, rvars, hvars >>

\* "Reset frame assembly state", under the assembly lock (c64u-source.c:472-482)
StopReset ==
  /\ cpc = "reset"
  /\ assembly_mutex = "free"
  /\ current_frame' = init_frame_assembly(0, 0)
  /\ last_completed_frame' = 0
  /\ frame_drops' = 0
  /\ cpc' = "idle"
  /\ UNCHANGED << now, tcall, tsel, fdet, wvars, buffer_swaps, video_format, bvars, lvars,
                  thread_active, streaming, stops, ctl, rvars, hvars, published >>

\* c64u_start_streaming on a stopped stream (c64u-source.c:343-417)
StartStreaming ==
  /\ cpc = "idle" /\ ~ streaming
  /\ thread_active' = TRUE
  /\ streaming' = TRUE
  /\ wpc' = "recv"
  /\ UNCHANGED << now, tcall, tsel, fdet, wsite, wslot, packet, packet_count, avars, bvars, lvars, cpc, stops, ctl,
                  rvars, hvars, published >>

NextSystem ==
  \/ Tick
  \/ \E p \in SysPackets : RecvPacket(p)
  \/ WorkerLock
  \/ WorkerAssemble
  \/ WorkerSwap
  \/ WorkerUnlock
  \/ RecvWouldBlock
  \/ RecvError
  \/ WorkerExit
  \/ RenderBegin
  \/ RenderCopy
  \/ RenderLock
  \/ RenderDraw
  \/ StopBegin
  \/ StopJoin
  \/ StopClear
  \/ StopReset
  \/ StartStreaming

\* the worker, the consumer and the control thread together
SpecSystem == Init /\ [][NextSystem]_vars

\* C3 (as claimed): whatever the interleaving of worker, render call and
\* snapshot copy, the pixels the consumer draws are the complete content a
\* buffer had after one assemble-and-swap, never lines of two of them.
\* (Stated for a stream that was never stopped.)
C3_ConsumerSeesOneCompleteFrame ==
  (seen # NoSeen /\ stops = 0) =>
    \E c \in published : \A l \in DOMAIN seen : seen[l] = c[l]

(***************************************************************************)
(* The video worker with the control thread that stops and restarts the    *)
(* stream.                                                                 *)
(***************************************************************************)
\* the datagrams of these runs: frames of one and of two packets
StopPackets ==
  { Packet(f, l, last, C64U_PIXELS_PER_LINE, C64U_LINES_PER_PACKET, BITS_PER_PIXEL, 18) :
      f \in FrameNums, l \in {0, C64U_LINES_PER_PACKET}, last \in BOOLEAN }
  \ { Packet(f, C64U_LINES_PER_PACKET, FALSE, C64U_PIXELS_PER_LINE, C64U_LINES_PER_PACKET,
             BITS_PER_PIXEL, 18) : f \in FrameNums }

\* a step of the video worker thread
WorkerStep ==
  \/ \E p \in StopPackets : RecvPacket(p)
  \/ RecvWouldBlock
  \/ RecvError
  \/ WorkerExit
  \/ WorkerLock
  \/ WorkerAssemble
  \/ WorkerSwap
  \/ WorkerUnlock

NextStop ==
  \/ \E p \in StopPackets : RecvPacket(p)
  \/ RecvWouldBlock
  \/ RecvError
  \/ WorkerExit
  \/ WorkerLock
  \/ WorkerAssemble
  \/ WorkerSwap
  \/ WorkerUnlock
  \/ StopBegin
  \/ StopJoin
  \/ StopClear
  \/ StopReset
  \/ StartStreaming

\* the worker and the control thread
SpecStop == Init /\ [][NextStop]_vars

\* the same, with a worker thread that is scheduled and whose recv returns,
\* and a join that returns once the worker has ended
SpecStopFair == SpecStop /\ WF_vars(WorkerStep) /\ WF_vars(StopJoin)

\* c64u_stop_streaming has returned and the stream was not started again
Stopped == cpc = "idle" /\ ~ streaming

\* c64u_stop_streaming returns
StopReturns == cpc = "reset" /\ cpc' = "idle"

(***************************************************************************)
(* The calls of the control thread: start, stop, update and destroy, with  *)
(* the video worker.                                                       *)
(***************************************************************************)
\* calls of c64u_start_streaming and c64u_update in one run
MaxControl == 2

\* how c64u_start_streaming ends: both threads run, a socket or the video
\* thread could not be created, or the audio thread could not be created
StartOutcomes == {"started", "nothing_created", "audio_failed"}

\* a video worker thread exists: created and not yet run to its end
WorkerExists == wpc # "exited"

\* the control thread is between two calls, or past its last one
BetweenCalls == cpc \in {"idle", "destroyed"}

\* the control thread waits in pthread_join(context->video_thread, ..)
Joining == cpc \in {"join", "ajoin", "djoin"}

\* the calls OBS makes on a source that is neither inside c64u_update nor
\* being destroyed
Callable == cpc = "idle" /\ ctl.call # "update_stop"

StartBody_Mut(outcome) ==
  IF outcome = "nothing_created"
  THEN UNCHANGED << thread_active, streaming, wpc, cpc >>
  ELSE /\ thread_active' = TRUE
       /\ streaming' = TRUE
       /\ wpc' = "recv"
       /\ cpc' = IF outcome = "audio_failed" THEN "audio" ELSE "idle"

\* c64u_start_streaming without its entry in the log (c64u-source.c:350-417)
StartBody(outcome) ==
  IF streaming \/ outcome = "nothing_created"
  THEN \* "Already streaming", or the sockets are closed and the flags false again
       UNCHANGED << thread_active, streaming, wpc, cpc >>
  ELSE \* pthread_create(&context->video_thread, ..)
       /\ thread_active' = TRUE
       /\ streaming' = TRUE
       /\ wpc' = "recv"
       /\ cpc' = IF outcome = "audio_failed" THEN "audio" ELSE "idle"

StartCall_Mut(outcome) ==
  /\ Callable
  /\ ctl.n < MaxControl
  /\ ctl' = [call |-> "start", n |-> ctl.n + 1]
  /\ IF streaming /\ wpc = "exited"
     THEN wpc' = "recv" /\ UNCHANGED << thread_active, streaming, cpc >>
     ELSE StartBody(outcome)
  /\ UNCHANGED << now, tcall, tsel, fdet, wsite, wslot, packet, packet_count, avars, bvars, lvars, stops,
                  rvars, hvars, published >>

\* c64u_start_streaming, called by OBS
StartCall(outcome) ==
  /\ Callable
  /\ ctl.n < MaxControl
  /\ ctl' = [call |-> "start", n |-> ctl.n + 1]
  /\ StartBody(outcome)
  /\ UNCHANGED << now, tcall, tsel, fdet, wsite, wslot, packet, packet_count, avars, bvars, lvars, stops,
                  rvars, hvars, published >>

\* "Failed to create audio receiver thread": the flags are cleared and the
\* video thread is joined (c64u-source.c:397-409)
StartAudioFailed ==
  /\ cpc = "audio"
  /\ streaming' = FALSE
  /\ thread_active' = FALSE
  /\ cpc' = "ajoin"
  /\ wpc' \in (IF wpc = "recv" /\ thread_active THEN {"recv", "inrecv"} ELSE {wpc})
  /\ UNCHANGED << now, tcall, tsel, fdet, wsite, wslot, packet, packet_count, avars, bvars, lvars, stops, ctl,
                  rvars, hvars, published >>

\* that pthread_join returns and c64u_start_streaming with it
StartAudioJoin ==
  /\ cpc = "ajoin"
  /\ wpc = "exited"
  /\ cpc' = "idle"
  /\ UNCHANGED << now, tcall, tsel, fdet, wvars, avars, bvars, lvars, thread_active, streaming, stops, ctl,
                  rvars, hvars, published >>

\* c64u_stop_streaming, called by OBS
StopCall ==
  /\ Callable
  /\ StopBegin

\* c64u_update: with changed ports and a running stream it stops the stream
\* first, otherwise it goes straight to c64u_start_streaming (c64u-source.c:314-340)
UpdateCall(ports_changed, outcome) ==
  /\ Callable
  /\ ctl.n < MaxControl
  /\ IF ports_changed /\ streaming
     THEN /\ stops < MaxStops
          /\ stops' = stops + 1
          /\ streaming' = FALSE
          /\ thread_active' = FALSE
          /\ cpc' = "join"
          /\ wpc' \in (IF wpc = "recv" /\ thread_active THEN {"recv", "inrecv"} ELSE {wpc})
          /\ ctl' = [call |-> "update_stop", n |-> ctl.n + 1]
     ELSE /\ StartBody(outcome)
          /\ ctl' = [call |-> "update", n |-> ctl.n + 1]
          /\ UNCHANGED stops
  /\ UNCHANGED << now, tcall, tsel, fdet, wsite, wslot, packet, packet_count, avars, bvars, lvars,
                  rvars, hvars, published >>

\* the c64u_start_streaming at the end of a c64u_update that stopped the stream
UpdateStart(outcome) ==
  /\ cpc = "idle"
  /\ ctl.call = "update_stop"
  /\ ctl' = [ctl EXCEPT !.call = "update"]
  /\ StartBody(outcome)
  /\ UNCHANGED << now, tcall, tsel, fdet, wsite, wslot, packet, packet_count, avars, bvars, lvars, stops,
                  rvars, hvars, published >>

\* c64u_destroy up to its pthread_join (c64u-source.c:216-250)
DestroyCall ==
  /\ Callable
  /\ rpc = "idle"
  /\ ctl' = [ctl EXCEPT !.call = "destroy"]
  /\ IF streaming
     THEN /\ streaming' = FALSE
          /\ thread_active' = FALSE
          /\ cpc' = "djoin"
          /\ wpc' \in (IF wpc = "recv" /\ thread_active THEN {"recv", "inrecv"} ELSE {wpc})
     ELSE /\ cpc' = "destroyed"
          /\ UNCHANGED << streaming, thread_active, wpc >>
  /\ UNCHANGED << now, tcall, tsel, fdet, wsite, wslot, packet, packet_count, avars, bvars, lvars, stops,
                  rvars, hvars, published >>

\* the pthread_join of c64u_destroy returns
DestroyJoin ==
  /\ cpc = "djoin"
  /\ wpc = "exited"
  /\ cpc' = "destroyed"
  /\ UNCHANGED << now, tcall, tsel, fdet, wvars, avars, bvars, lvars, thread_active, streaming, stops, ctl,
                  rvars, hvars, published >>

\* the datagrams of these runs: frame 1, whole in one packet
LifePackets ==
  { Packet(1, 0, TRUE, C64U_PIXELS_PER_LINE, C64U_LINES_PER_PACKET, BITS_PER_PIXEL, 18) }

NextLifecycle ==
  \/ \E p \in LifePackets : RecvPacket(p)
  \/ RecvWouldBlock
  \/ RecvError
  \/ WorkerExit
  \/ WorkerLock
  \/ WorkerAssemble
  \/ WorkerSwap
  \/ WorkerUnlock
  \/ \E outcome \in StartOutcomes : StartCall(outcome)
  \/ StartAudioFailed
  \/ StartAudioJoin
  \/ StopCall
  \/ StopJoin
  \/ StopClear
  \/ StopReset
  \/ \E ports_changed \in BOOLEAN, outcome \in StartOutcomes : UpdateCall(ports_changed, outcome)
  \/ \E outcome \in StartOutcomes : UpdateStart(outcome)
  \/ DestroyCall
  \/ DestroyJoin

\* the worker and the control thread of one source, from c64u_create to
\* c64u_destroy
SpecLifecycle == Init /\ [][NextLifecycle]_vars

(***************************************************************************)
(* The render call with the worker and with stop and start, on a timing    *)
(* state past its first ten deliveries.                                    *)
(***************************************************************************)
\* the timing state after earlier render calls set it up and delivered ten
\* frames, the latest of them at the end of the first millisecond, with five
\* source frames received
PastWarmup(s) ==
  /\ ~ timing.initialized
  /\ video_format.format_detected
  /\ render_calls = 0
  /\ now = 0
  /\ now' = 1
  /\ timing' = [c64u_timing_init(s, video_format.height) EXCEPT
                  !.frames_delivered = 10, !.frames_received = 5,
                  !.last_obs_frame_time = now']
  /\ UNCHANGED << tcall, tsel, fdet, wvars, avars, bvars, lvars, cvars, rpc, render_calls,
                  frame_to_render, rsrc, rline, rheight, interp_frames, seen, hvars,
                  published >>

NextRender ==
  \/ \E p \in LifePackets : RecvPacket(p)
  \/ RecvWouldBlock
  \/ RecvError
  \/ WorkerExit
  \/ WorkerLock
  \/ WorkerAssemble
  \/ WorkerSwap
  \/ WorkerUnlock
  \/ \E s \in Strategies : PastWarmup(s)
  \/ RenderBegin
  \/ RenderCopy
  \/ RenderLock
  \/ RenderDraw
  \/ \E outcome \in StartOutcomes \ {"audio_failed"} : StartCall(outcome)
  \/ StopCall
  \/ StopJoin
  \/ StopClear
  \/ StopReset

\* the three threads of one source
SpecRender == Init /\ [][NextRender]_vars

(***************************************************************************)
(* The two locks: the worker, the render call and stop and start, with     *)
(* threads that are scheduled.                                             *)
(***************************************************************************)
NextLocks ==
  \/ \E p \in LifePackets : RecvPacket(p)
  \/ RecvWouldBlock
  \/ WorkerExit
  \/ WorkerLock
  \/ WorkerAssemble
  \/ WorkerSwap
  \/ WorkerUnlock
  \/ RenderBegin
  \/ RenderCopy
  \/ RenderLock
  \/ RenderDraw
  \/ StopBegin
  \/ StopJoin
  \/ StopClear
  \/ StopReset
  \/ StartStreaming

\* the worker, the render call and the control thread
SpecLocks == Init /\ [][NextLocks]_vars

\* a thread that can take its next step between a lock and its unlock, or
\* that can take a lock that stays free, does so
SpecLocksFair ==
  /\ SpecLocks
  /\ WF_vars(WorkerLock) /\ WF_vars(WorkerAssemble) /\ WF_vars(WorkerSwap)
  /\ WF_vars(WorkerUnlock)
  /\ WF_vars(RenderLock) /\ WF_vars(RenderDraw)
  /\ WF_vars(StopClear) /\ WF_vars(StopReset)

(***************************************************************************)
(* The timing module on its own: the state set up by c64u_timing_init and  *)
(* the calls of its interface, at times of a clock that never runs back.   *)
(***************************************************************************)
\* frame rates of OBS: intervals of 20 ms and of 33 ms
TargetFps == {50, 30}

\* what the calls of the timing module leave alone
nontiming ==
  << wvars, avars, bvars, lvars, cvars, rpc, render_calls, frame_to_render, rsrc,
     rline, rheight, interp_frames, seen, hvars, published >>

\* c64u_timing_init on the zeroed state
TimingInit(s, fps) ==
  /\ ~ timing.initialized
  /\ timing' = c64u_timing_init_fps(s, fps, C64U_PAL_HEIGHT)
  /\ UNCHANGED << now, tcall, tsel, fdet, nontiming >>

\* the clock advances by a quarter of the target interval
TimingTick ==
  /\ timing.initialized
  /\ now < MaxTicks * (timing.obs_frame_interval \div 4)
  /\ now' = now + timing.obs_frame_interval \div 4
  /\ UNCHANGED << timing, tcall, tsel, fdet, nontiming >>

\* c64u_timing_on_c64_frame_received
TimingFrameReceived ==
  /\ timing.initialized
  /\ timing.frames_received < MaxReceived
  /\ timing' = c64u_timing_on_c64_frame_received(timing)
  /\ UNCHANGED << now, tcall, tsel, fdet, nontiming >>

\* c64u_timing_should_deliver_frame at the current time and, when it says so,
\* c64u_timing_get_frame_for_obs and c64u_timing_on_obs_frame_delivered, as
\* c64u_render calls them
TimingCall ==
  LET deliver == c64u_timing_should_deliver_frame(timing, now)
      t1 == c64u_timing_should_deliver_frame_state(timing, now)
      t2 == c64u_timing_get_frame_for_obs_state(t1)
  IN /\ timing.initialized
     /\ tcall.calls < MaxCalls
     /\ timing' = IF deliver THEN c64u_timing_on_obs_frame_delivered(t2, now) ELSE t1
     /\ tcall' = [calls |-> tcall.calls + 1, pre |-> timing, at |-> now,
                  deliver |-> deliver]
     /\ UNCHANGED << now, tsel, fdet, nontiming >>

NextTiming ==
  \/ \E s \in Strategies : \E fps \in TargetFps : TimingInit(s, fps)
  \/ TimingTick
  \/ TimingFrameReceived
  \/ TimingCall

SpecTiming == Init /\ [][NextTiming]_vars

(***************************************************************************)
(* The four calls of the timing module one by one, in any order, on a      *)
(* state before or past its first ten deliveries.                          *)
(***************************************************************************)
\* frames_delivered and frames_received when the calls begin: none, or the
\* initial frames delivered and enough frames received for the frame debt update
CountedBefore == { << 0, 0 >>, << 10, 11 >> }

\* c64u_timing_init, and the frames counted before the calls of this run
CallsInit(s, fps, d, r) ==
  /\ ~ timing.initialized
  /\ timing' = [c64u_timing_init_fps(s, fps, C64U_PAL_HEIGHT) EXCEPT
                  !.frames_delivered = d, !.frames_received = r]
  /\ UNCHANGED << now, tcall, tsel, fdet, nontiming >>

\* the clock advances by one and a half target intervals
CallsTick ==
  /\ timing.initialized
  /\ now < MaxTime * ((3 * timing.obs_frame_interval) \div 2)
  /\ now' = now + (3 * timing.obs_frame_interval) \div 2
  /\ UNCHANGED << timing, tcall, tsel, fdet, nontiming >>

CallShouldDeliver_Mut ==
  /\ timing.initialized
  /\ tcall.calls < MaxSelects
  /\ timing' = c64u_timing_should_deliver_frame_state_Eager(timing, now)
  /\ tcall' = [calls |-> tcall.calls + 1, pre |-> timing, at |-> now,
               deliver |-> c64u_timing_should_deliver_frame(timing, now)]
  /\ UNCHANGED << now, tsel, fdet, nontiming >>

\* c64u_timing_should_deliver_frame at the current time
CallShouldDeliver ==
  /\ timing.initialized
  /\ tcall.calls < MaxSelects
  /\ timing' = c64u_timing_should_deliver_frame_state(timing, now)
  /\ tcall' = [calls |-> tcall.calls + 1, pre |-> timing, at |-> now,
               deliver |-> c64u_timing_should_deliver_frame(timing, now)]
  /\ UNCHANGED << now, tsel, fdet, nontiming >>

\* c64u_timing_get_frame_for_obs, for what it does to the timing state
CallGetFrame ==
  /\ timing.initialized
  /\ timing' = c64u_timing_get_frame_for_obs_state(timing)
  /\ UNCHANGED << now, tcall, tsel, fdet, nontiming >>

\* c64u_timing_on_obs_frame_delivered at the current time
CallDelivered ==
  /\ timing.initialized
  /\ timing.frames_delivered % 10 < MaxSelects
  /\ timing' = c64u_timing_on_obs_frame_delivered(timing, now)
  /\ UNCHANGED << now, tcall, tsel, fdet, nontiming >>

NextCalls ==
  \/ \E s \in Strategies, fps \in TargetFps, c \in CountedBefore :
       CallsInit(s, fps, c[1], c[2])
  \/ CallsTick
  \/ TimingFrameReceived
  \/ CallShouldDeliver
  \/ CallGetFrame
  \/ CallDelivered

SpecCalls == Init /\ [][NextCalls]_vars

(***************************************************************************)
(* The adaptive strategy at equal rates: rounds in which the clock         *)
(* advances by one target interval, one source frame is received and the   *)
(* consumer polls once, in any order within the round.                     *)
(***************************************************************************)
\* target intervals gone by, source frames received and polls made so far
RoundTicks == now \div timing.obs_frame_interval
RoundFrames == timing.frames_received
RoundPolls == tcall.calls

AdaptiveTick ==
  /\ timing.initialized
  /\ RoundTicks < MaxRounds
  /\ RoundTicks <= RoundFrames /\ RoundTicks <= RoundPolls
  /\ now' = now + timing.obs_frame_interval
  /\ UNCHANGED << timing, tcall, tsel, fdet, nontiming >>

AdaptiveFrameReceived ==
  /\ timing.initialized
  /\ RoundFrames < MaxRounds
  /\ RoundFrames <= RoundTicks /\ RoundFrames <= RoundPolls
  /\ timing' = c64u_timing_on_c64_frame_received(timing)
  /\ UNCHANGED << now, tcall, tsel, fdet, nontiming >>

AdaptivePoll ==
  /\ timing.initialized
  /\ RoundPolls < MaxRounds
  /\ RoundPolls <= RoundTicks /\ RoundPolls <= RoundFrames
  /\ TimingCall

NextAdaptive ==
  \/ \E fps \in TargetFps : TimingInit("ADAPTIVE", fps)
  \/ AdaptiveTick
  \/ AdaptiveFrameReceived
  \/ AdaptivePoll

SpecAdaptive == Init /\ [][NextAdaptive]_vars

(***************************************************************************)
(* Frame selection: the video worker completes frames while the consumer   *)
(* sets up the timing state and calls c64u_timing_get_frame_for_obs.  The  *)
(* call is one step here; its memcpy against a running worker is the       *)
(* subject of SpecSystem.                                                  *)
(***************************************************************************)
\* values of frame_debt handed to the selection: 0.5, the two thresholds
\* 2.0 and -2.0, and 2.5 and 3.0 beyond each of them
DebtInputs ==
  {1, -1} \cup ((2 * DEBT_ONE) .. (3 * DEBT_ONE)) \cup ((- (3 * DEBT_ONE)) .. (- (2 * DEBT_ONE)))

\* c64u_init_timing_system with the strategy of the settings; bmalloc, which
\* is called for the interpolation strategy only, may fail for one of the
\* three frames
SelectInit(s, fail) ==
  /\ ~ timing.initialized
  /\ video_format.format_detected
  /\ timing' = c64u_timing_init_alloc(s, video_format.height, fail)
  /\ tsel' = [tsel EXCEPT !.requested = s, !.fail = fail]
  /\ UNCHANGED << now, tcall, fdet, wvars, avars, bvars, lvars, cvars, rpc, render_calls,
                  frame_to_render, rsrc, rline, rheight, interp_frames, seen, hvars,
                  published >>

\* the frame debt as an input of the selection
SelectDebt(d) ==
  /\ timing.initialized
  /\ tsel.calls = 0
  /\ timing.frame_debt = 0 /\ d # 0
  /\ timing' = [timing EXCEPT !.frame_debt = d]
  /\ UNCHANGED << now, tcall, tsel, fdet, wvars, avars, bvars, lvars, cvars, rpc,
                  render_calls, frame_to_render, rsrc, rline, rheight, interp_frames,
                  seen, hvars, published >>

\* c64u_timing_get_frame_for_obs, called by c64u_render for a ready frame
SelectFrame ==
  LET next_write == (timing.write_index + 1) % 3
      copies == timing.strategy = "INTERPOLATION" /\ timing.frames[next_write]
  IN /\ timing.initialized
     /\ streaming /\ frame_ready
     /\ tsel.calls < MaxSelects
     /\ timing' = c64u_timing_get_frame_for_obs_state(timing)
     /\ interp_frames' =
          IF copies
          THEN [interp_frames EXCEPT ![next_write] =
                  [l \in AllocLines |->
                     IF l < video_format.height /\ l < timing.alloc_lines
                     THEN bufmem[frame_buffer_front][l] ELSE @[l]]]
          ELSE interp_frames
     /\ heap_overflow' = (heap_overflow \/ (copies /\ video_format.height > timing.alloc_lines))
     /\ tsel' = [tsel EXCEPT !.calls = @ + 1, !.pre = timing,
                             !.front = frame_buffer_front,
                             !.ret = c64u_timing_get_frame_for_obs(timing, frame_buffer_front),
                             !.snaps = IF copies THEN @ + 1 ELSE @]
     /\ UNCHANGED << now, tcall, fdet, wvars, avars, frame_buffer_front, frame_buffer_back,
                     bufmem, frame_ready, lvars, cvars, rpc, render_calls, frame_to_render,
                     rsrc, rline, rheight, seen, hvars, published >>

NextSelect ==
  \/ \E p \in SysPackets : RecvPacket(p)
  \/ WorkerLock
  \/ WorkerAssemble
  \/ WorkerSwap
  \/ WorkerUnlock
  \/ \E s \in Strategies :
       \E fail \in (IF s = "INTERPOLATION" THEN 0 .. 3 ELSE {3}) : SelectInit(s, fail)
  \/ \E d \in DebtInputs : SelectDebt(d)
  \/ SelectFrame

SpecSelect == Init /\ [][NextSelect]_vars

(***************************************************************************)
(* Format detection at the heights of the real device.  c64u-protocol.h is *)
(* not among the sources; the heights of the two formats are those the     *)
(* specification names.                                                    *)
(***************************************************************************)
SPEC_PAL_HEIGHT == 288
SPEC_NTSC_HEIGHT == 240

\* line_num + lines_per_packet of last packets: the two formats, the two
\* sides of the limit of 250 rows, and heights off both formats
FormatHeights == {236, 240, 244, 249, 250, 251, 272, 284, 288, 292}

\* the format detection on the first last-flagged packet of a frame
DetectFormat(h) ==
  /\ fdet.calls < MaxDetections
  /\ video_format' = format_for_height(video_format, h, SPEC_PAL_HEIGHT, SPEC_NTSC_HEIGHT)
  /\ fdet' = [calls |-> fdet.calls + 1, frame_height |-> h, pre |-> video_format]
  /\ UNCHANGED << now, tcall, tsel, wvars, current_frame, last_completed_frame, frame_drops,
                  buffer_swaps, bvars, lvars, cvars, rvars, hvars, published >>

NextFormat == \E h \in FormatHeights : DetectFormat(h)

SpecFormat == Init /\ [][NextFormat]_vars

(***************************************************************************)
(* The assembler on tables whose slots overlap: the index of a slot is     *)
(* line_num / lines_per_packet, so any line number below the end of the    *)
(* table is stored, aligned or not, and both payloads occur in every slot. *)
(***************************************************************************)
AssemblePackets ==
  { Packet(f, l, last, C64U_PIXELS_PER_LINE, C64U_LINES_PER_PACKET, BITS_PER_PIXEL, d) :
      f \in FrameNums,
      l \in 0 .. (C64U_MAX_PACKETS_PER_FRAME * C64U_LINES_PER_PACKET - 1),
      last \in BOOLEAN, d \in Payloads }

NextAssemble ==
  \/ \E p \in AssemblePackets : RecvPacket(p)
  \/ WorkerLock
  \/ WorkerAssemble
  \/ WorkerSwap
  \/ WorkerUnlock

SpecAssemble == Init /\ [][NextAssemble]_vars

(***************************************************************************)
(* The slot table with room for three packets: the smallest table in which *)
(* a packet can be stored above the one that carries the last-packet flag  *)
(* while a lower slot stays empty.  A datagram is handled in one step up   *)
(* to the completion check, the completion in a second one.                *)
(***************************************************************************)
\* slots of the table of this specification
WideCapacity == 3

\* valid packets at the aligned line of every slot of the table
WidePackets ==
  { Packet(f, i * C64U_LINES_PER_PACKET, last, C64U_PIXELS_PER_LINE, C64U_LINES_PER_PACKET,
           BITS_PER_PIXEL, 18) :
      f \in FrameNums, i \in 0 .. (WideCapacity - 1), last \in BOOLEAN }

InitTable == InitWith(init_frame_assembly_in(0, 0, WideCapacity))

RECURSIVE assemble_slots(_, _, _, _)
\* the loop of assemble_frame_to_buffer over the slots i .. WideCapacity - 1
assemble_slots(mem, frame, i, height) ==
  IF i = WideCapacity THEN mem
  ELSE assemble_slots(assemble_slot(mem, frame.packets[i], height), frame, i + 1, height)

\* the table after the packet, and where the worker goes from there
TableAddAndCheck(frame, p) ==
  LET frame2 == add_packet_in(frame, p, WideCapacity) IN
  /\ current_frame' = frame2
  /\ video_format' =
       IF packet_index(p) < WideCapacity /\ p.last_packet
            /\ store_packet_in(frame, p, WideCapacity).expected_packets = 0
       THEN format_for_height(video_format, p.line_num + p.lines_per_packet,
                              C64U_PAL_HEIGHT, C64U_NTSC_HEIGHT)
       ELSE video_format
  /\ packet' = NoPacket
  /\ IF packet_index(p) < WideCapacity /\ is_frame_complete(frame2)
     THEN wpc' = "lock" /\ wsite' = "complete" /\ assembly_mutex' = "video"
     ELSE wpc' = "recv" /\ wsite' = "none" /\ assembly_mutex' = "free"

\* a valid datagram up to the completion check (c64u-video.c:232-330)
TableRecv(p) ==
  /\ Receiving
  /\ packet_count < MaxPackets
  /\ packet_count' = packet_count + 1
  /\ assembly_mutex = "free"
  /\ UNCHANGED << now, tcall, tsel, fdet, wslot, last_completed_frame, buffer_swaps, bvars,
                  frame_mutex, cvars, rvars, hvars, published >>
  /\ IF current_frame.frame_num # p.frame_num
     THEN IF current_frame.received_packets > 0 /\ is_frame_complete(current_frame)
          THEN /\ wpc' = "lock" /\ wsite' = "preempt" /\ assembly_mutex' = "video"
               /\ packet' = p
               /\ UNCHANGED << current_frame, frame_drops, video_format >>
          ELSE /\ frame_drops' = preempt_drops(current_frame, now, frame_drops)
               /\ TableAddAndCheck(init_frame_assembly_in(p.frame_num, now, WideCapacity), p)
     ELSE /\ frame_drops' = frame_drops
          /\ TableAddAndCheck(current_frame, p)

\* the completion: frame lock, guard, assemble, swap, unlock, and the reset
\* of the table (c64u-video.c:250-268, 277, 329-351)
TableComplete ==
  LET fresh == not_already_completed(last_completed_frame, current_frame)
      filled == assemble_slots(bufmem[frame_buffer_back], current_frame, 0,
                               video_format.height)
  IN /\ wpc = "lock"
     /\ frame_mutex = "free"
     /\ IF fresh
        THEN /\ bufmem' = [bufmem EXCEPT ![frame_buffer_back] = filled]
             /\ heap_overflow' =
                  (heap_overflow
                     \/ \E i \in 0 .. (WideCapacity - 1) :
                          assemble_overflows(current_frame.packets[i], video_format.height))
             /\ frame_buffer_front' = frame_buffer_back
             /\ frame_buffer_back' = frame_buffer_front
             /\ frame_ready' = TRUE
             /\ last_completed_frame' = current_frame.frame_num
             /\ buffer_swaps' = buffer_swaps + 1
             /\ published' = published \cup {filled}
        ELSE UNCHANGED << bvars, last_completed_frame, buffer_swaps, published >>
     /\ IF wsite = "preempt"
        THEN TableAddAndCheck(init_frame_assembly_in(packet.frame_num, now, WideCapacity),
                              packet)
        ELSE /\ current_frame' = init_frame_assembly_in(0, now, WideCapacity)
             /\ wpc' = "recv" /\ wsite' = "none" /\ assembly_mutex' = "free"
             /\ UNCHANGED << video_format, packet >>
     /\ UNCHANGED << now, tcall, tsel, fdet, wslot, packet_count, frame_drops, frame_mutex,
                     cvars, rvars, hvars >>

NextTable ==
  \/ \E p \in WidePackets : TableRecv(p)
  \/ TableComplete

SpecTable == InitTable /\ [][NextTable]_vars

(***************************************************************************)
(* Properties of the frame assembler.                                      *)
(***************************************************************************)
\* the worker takes a datagram of the right length from the socket
RecvStep == packet_count' = packet_count + 1

\* the worker takes a datagram of any length from the socket
DatagramStep ==
  wpc \in {"recv", "inrecv"} /\ (RecvStep \/ (obs' # obs /\ obs'.slot = "wrong_length"))

\* the datagram just taken was valid and displaced a frame that had packets
\* and was not complete
Preempted == RecvStep /\ obs'.prev \in {"abandoned", "dropped"}

\* C1 (as claimed): a frame number is colour-converted into the back buffer and
\* swapped at most once: the worker never starts to assemble a frame whose
\* number was already assembled and swapped since the stream started.
C1_AtMostOncePerFrameNumber ==
  wpc = "assemble" => current_frame.frame_num \notin swapped

\* C2 (as claimed): a frame whose packets arrive in order with none lost is found
\* complete on its last packet and not before, and is then assembled and
\* swapped.  (Stated for frame numbers not swapped before in the stream.)
C2_InOrderFrameAssembledOnLastPacket ==
  [][ /\ (RecvStep /\ in_order' /\ obs'.slot = "stored")
          => (wpc' = "lock" <=> obs'.last)
      /\ (wpc = "lock" /\ wsite = "complete" /\ in_order /\ wpc' # "lock"
            /\ current_frame.frame_num \notin swapped)
          => wpc' = "assemble" ]_vars

\* C4 (as claimed): after a packet of another frame number displaced an
\* incomplete frame, that frame was not assembled and the table holds only the
\* packet: the worker is back at the socket with frame_num the new number,
\* received_packets 1 (0 if the index is out of range) and expected_packets
\* unset unless the packet carries the last-packet flag.
C4_TableHoldsOnlyNewPacket ==
  [][ Preempted =>
        /\ wsite' # "preempt" /\ buffer_swaps' = buffer_swaps
        /\ wpc' = "recv"
        /\ current_frame'.frame_num = obs'.frame_num
        /\ current_frame'.received_packets = (IF obs'.slot = "out_of_range" THEN 0 ELSE 1)
        /\ (~ obs'.last => current_frame'.expected_packets = 0) ]_vars

\* C4 (amended): after a packet of another frame number displaced an incomplete
\* frame, that frame was not assembled or swapped and the table holds only the
\* packet (frame_num the new number, received_packets 1, or 0 if the index is
\* out of range, expected_packets index + 1 if the packet is in range and
\* carries the last-packet flag and unset otherwise); the worker is back at
\* the socket unless the packet is a whole frame by itself (index 0 with the
\* last-packet flag), which goes on to the frame lock and, once handed over,
\* leaves the table empty with frame number 0.
C4_TableHoldsOnlyNewPacketOrCompletes ==
  [][ /\ Preempted =>
           /\ wsite' # "preempt"
           /\ UNCHANGED << buffer_swaps, bufmem, frame_buffer_front, frame_buffer_back,
                           frame_ready >>
           /\ current_frame'.frame_num = obs'.frame_num
           /\ \A i \in SlotIdx :
                current_frame'.packets[i].received <=> (obs'.slot = "stored" /\ i = obs'.idx)
           /\ current_frame'.received_packets = (IF obs'.slot = "stored" THEN 1 ELSE 0)
           /\ current_frame'.expected_packets =
                (IF obs'.slot = "stored" /\ obs'.last THEN obs'.idx + 1 ELSE 0)
           /\ wpc' = (IF obs'.slot = "stored" /\ obs'.last /\ obs'.idx = 0
                      THEN "lock" ELSE "recv")
      /\ (wpc = "unlock" /\ wsite = "complete" /\ wpc' # "unlock") =>
           /\ current_frame'.frame_num = 0
           /\ current_frame'.received_packets = 0
           /\ current_frame'.expected_packets = 0
           /\ wpc' = "recv" ]_vars

\* C4 witness: a packet displaced an incomplete frame and is alone in the table
C4_Witness ==
  /\ wpc = "recv" /\ obs.prev = "abandoned" /\ obs.slot = "stored"
  /\ current_frame.frame_num = obs.frame_num
  /\ current_frame.received_packets = 1

C6_SwapOnlyWhenComplete ==
  [][ (frame_buffer_front' # frame_buffer_front \/ frame_buffer_back' # frame_buffer_back
         \/ (frame_ready' /\ ~ frame_ready) \/ buffer_swaps' > buffer_swaps)
        => /\ current_frame.received_packets > 0
           /\ current_frame.received_packets = current_frame.expected_packets ]_vars

\* C6 witness: a swap has happened
C6_Witness == wpc = "unlock" /\ buffer_swaps > 0 /\ frame_ready

\* C7: a second packet with the index of a slot that is already written leaves
\* the table (line numbers, payloads) and received_packets as they are.
C7_FirstWriterWins ==
  [][ (RecvStep /\ obs'.slot = "duplicate") =>
        /\ current_frame'.packets = current_frame.packets
        /\ current_frame'.received_packets = current_frame.received_packets
        /\ current_frame'.frame_num = current_frame.frame_num ]_vars

\* C7 witness: a duplicate has arrived for a frame in progress
C7_Witness ==
  /\ obs.slot = "duplicate" /\ wpc = "recv"
  /\ current_frame.packets[obs.idx].received

\* the value of expected_packets that a valid datagram finds in its frame
ExpectedBefore == IF obs'.prev = "same" THEN current_frame.expected_packets ELSE 0

\* C8 (as claimed): expected_packets goes from unset to index + 1 on the first
\* packet of the frame that carries the last-packet flag.
C8_SetByFirstLastPacket ==
  [][ (RecvStep /\ obs'.slot \in {"stored", "duplicate", "out_of_range"}
         /\ obs'.prev # "complete" /\ obs'.last /\ ExpectedBefore = 0)
        => current_frame'.expected_packets = obs'.idx + 1 ]_vars

\* C8 (amended): expected_packets goes from unset to index + 1 on the first
\* packet of the frame that carries the last-packet flag and whose index is
\* below the slot-table capacity, and then keeps its value until the table is
\* reset, whatever later packets carry.
C8_SetOnceByFirstLastPacketInRange ==
  [][ IF RecvStep /\ obs'.slot # "invalid" /\ obs'.prev # "complete"
      THEN current_frame'.expected_packets =
             (IF ExpectedBefore = 0 /\ obs'.last /\ obs'.slot \in {"stored", "duplicate"}
              THEN obs'.idx + 1 ELSE ExpectedBefore)
      ELSE \/ current_frame'.expected_packets = current_frame.expected_packets
           \/ /\ current_frame'.expected_packets = 0
              /\ current_frame'.received_packets = 0 ]_vars

\* C8 witness: a later last-flagged packet with another index left the value
C8_Witness ==
  /\ obs.prev = "same" /\ obs.last /\ obs.slot \in {"stored", "duplicate"}
  /\ current_frame.frame_num = obs.frame_num
  /\ current_frame.expected_packets > 0
  /\ current_frame.expected_packets # obs.idx + 1

\* C9: a datagram of the wrong length or with a wrong lines_per_packet,
\* pixels_per_line or bits_per_pixel leaves the assembly state, both pixel
\* buffers and frame_ready as they are, and the worker stays in its loop.
C9_MalformedLeavesStateAlone ==
  [][ (DatagramStep /\ obs'.slot \in {"invalid", "wrong_length"}) =>
        /\ UNCHANGED << current_frame, last_completed_frame, bufmem,
                        frame_buffer_front, frame_buffer_back, frame_ready >>
        /\ wpc' = "recv" ]_vars

\* C9 witness: a malformed datagram arrived while a frame was in progress
C9_Witness ==
  /\ obs.slot = "invalid" /\ wpc = "recv"
  /\ current_frame.received_packets > 0

\* C10 (as claimed): a valid packet with an index not below the slot-table
\* capacity leaves the table, received_packets and expected_packets as they
\* are, whatever its frame number.
C10_OutOfRangeLeavesTable ==
  [][ (RecvStep /\ obs'.slot = "out_of_range" /\ obs'.prev # "complete") =>
        /\ current_frame'.packets = current_frame.packets
        /\ current_frame'.received_packets = current_frame.received_packets
        /\ current_frame'.expected_packets = current_frame.expected_packets ]_vars

\* C10 (amended): a valid packet with an index not below the slot-table
\* capacity leaves the table, received_packets and expected_packets as they
\* are when it carries the frame number of the frame in progress; with another
\* frame number it discards that frame and leaves an empty table for its own
\* frame number.
C10_OutOfRangeLeavesTableOfItsFrame ==
  [][ (RecvStep /\ obs'.slot = "out_of_range" /\ obs'.prev # "complete") =>
        IF obs'.prev = "same"
        THEN UNCHANGED current_frame
        ELSE current_frame' =
               [frame_num |-> obs'.frame_num, start_time |-> now,
                received_packets |-> 0, expected_packets |-> 0,
                packets |-> [i \in SlotIdx |-> EmptySlot]] ]_vars

\* C10 witness: an out-of-range packet of the frame in progress has arrived
C10_Witness ==
  /\ obs.slot = "out_of_range" /\ obs.prev = "same" /\ wpc = "recv"
  /\ current_frame.received_packets > 0


(***************************************************************************)
(* Properties of the buffer pair, of stopping and of the receive loop.     *)
(***************************************************************************)
\* C11: whenever c64u_render reads a pixel buffer to build the texture it
\* holds the frame lock and the buffer it reads is the one that is designated
\* front at that moment, never the back buffer
C11_RenderReadsFrontUnderLock ==
  (rpc = "draw" /\ frame_to_render \in Buffers)
    => (frame_mutex = "render" /\ frame_to_render = frame_buffer_front)

\* C12: the front and back pointers are always the two distinct buffers that
\* were allocated at creation; a step that changes a pointer exchanges the
\* two, copies no pixel, sets frame_ready and is taken by the worker while it
\* holds the frame lock
C12_SwapExchangesPointersUnderLock ==
  [][ /\ frame_buffer_front' # frame_buffer_back'
      /\ {frame_buffer_front', frame_buffer_back'} = Buffers
      /\ (frame_buffer_front' # frame_buffer_front \/ frame_buffer_back' # frame_buffer_back)
           => /\ frame_buffer_front' = frame_buffer_back
              /\ frame_buffer_back' = frame_buffer_front
              /\ bufmem' = bufmem
              /\ frame_ready'
              /\ frame_mutex = "video" /\ frame_mutex' = "video" ]_vars

\* C12: the worker has swapped the buffers twice, so each buffer has been
\* front and back, and a frame is ready
C12_Witness ==
  /\ buffer_swaps >= 2
  /\ frame_ready
  /\ frame_buffer_front = 1
  /\ bufmem[1] # bufmem[2]

\* C13: when c64u_stop_streaming returns, frame_ready is false,
\* every line of both pixel buffers is zero and the assembly state is empty
C13_StopLeavesBuffersAllZero ==
  [][ StopReturns =>
        /\ ~ frame_ready'
        /\ \A b \in Buffers : \A l \in AllocLines : bufmem'[b][l] = ZeroLine
        /\ current_frame'.received_packets = 0
        /\ \A i \in SlotIdx : ~ current_frame'.packets[i].received ]_vars

\* C14: when the stream is started again after a stop, the dropped-frame
\* counter of the context and the delivered-frame counter of the timing state
\* are zero
C14_RestartStartsFromZeroCounters ==
  [][ (stops > 0 /\ ~ streaming /\ streaming')
        => (frame_drops' = 0 /\ timing'.frames_delivered = 0) ]_vars

\* the worker's share of the state: what it receives, assembles, writes, swaps
WorkerState ==
  << packet, packet_count, current_frame, last_completed_frame, frame_drops,
     buffer_swaps, video_format, frame_buffer_front, frame_buffer_back, bufmem,
     frame_ready, obs >>

\* C15: from the join of c64u_stop_streaming on, through the zeroing and the
\* reset and until the stream is started again, the worker thread has ended;
\* and once stop has returned nothing the worker owns changes: no packet is
\* processed, no buffer written or swapped, no assembly state changed
C15_NoWorkerAfterStop ==
  [][ /\ (cpc' \in {"clear", "reset"} \/ Stopped') => wpc' = "exited"
      /\ (Stopped /\ Stopped') => WorkerState' = WorkerState ]_vars

\* C15: a stop has returned after the worker had received packets and
\* swapped in a frame; the worker has ended and the state is reset
C15_Witness ==
  /\ Stopped /\ stops > 0
  /\ wpc = "exited"
  /\ packet_count > 0 /\ buffer_swaps > 0
  /\ ~ frame_ready /\ last_completed_frame = 0

\* C16: once c64u_stop_streaming has cleared the flag and closed the socket,
\* the worker eventually ends, whatever its receive returned, and the join
\* eventually returns
C16_StopEventuallyJoins ==
  /\ (cpc = "join") ~> (wpc = "exited")
  /\ (cpc = "join") ~> (cpc = "clear")

\* C16: stop has cleared the flag and waits in the join while the worker is
\* still inside recv
C16_Witness ==
  /\ cpc = "join" /\ ~ thread_active
  /\ wpc = "inrecv"

\* the worker's recv returned would-block in this step
WouldBlockStep ==
  /\ obs'.slot = "would_block"
  /\ obs' # obs \/ (wpc = "inrecv" /\ wpc' = "recv")

\* the worker leaves its receive loop in this step
LoopEnds == wpc # "exited" /\ wpc' = "exited"

\* C17: the receive loop ends only with the flag false or on a recv error
\* that is not would-block; a would-block keeps the worker in the loop and
\* changes no frame, buffer or counter; a fatal recv error ends the loop and
\* leaves the assembly state and the pixel buffers as they are
C17_LoopEndsOnlyOnFlagOrFatalError ==
  [][ /\ LoopEnds => (~ thread_active \/ obs'.slot = "recv_error")
      /\ WouldBlockStep
           => /\ wpc' = "recv"
              /\ UNCHANGED << packet_count, avars, bvars, lvars >>
      /\ (LoopEnds /\ obs'.slot = "recv_error" /\ obs' # obs)
           => UNCHANGED << current_frame, last_completed_frame, bufmem,
                           frame_buffer_front, frame_buffer_back, frame_ready >> ]_vars

\* C17: the loop has ended on a fatal recv error while the flag was still
\* set, with a partly assembled frame left in the table
C17_Witness ==
  /\ wpc = "exited" /\ thread_active
  /\ obs.slot = "recv_error"
  /\ current_frame.received_packets > 0
  /\ ~ is_frame_complete(current_frame)


(***************************************************************************)
(* Properties of the timing module.                                        *)
(***************************************************************************)
\* time between the latest call and the delivery before it
CallElapsed == tcall.at - tcall.pre.last_obs_frame_time

\* the latest call was made with a strategy other than passthrough
TimedCall == tcall.calls > 0 /\ tcall.pre.strategy # "PASSTHROUGH"

\* C18: with a strategy other than passthrough each of the first 10 calls of
\* c64u_timing_should_deliver_frame on a fresh timing state returns true,
\* whatever the times of the calls and however many source frames came in
C18_FirstTenCallsDeliver ==
  (TimedCall /\ tcall.calls <= 10) => tcall.deliver

\* C18: the tenth call returned true although five source frames had come in
\* and the delivery before it was made at the same, non-zero time
C18_Witness ==
  /\ TimedCall /\ tcall.calls = 10 /\ tcall.deliver
  /\ tcall.pre.frames_delivered = 9
  /\ tcall.pre.frames_received >= 5
  /\ tcall.pre.last_obs_frame_time # 0
  /\ CallElapsed = 0

\* C19: with a strategy other than passthrough, at least 10 frames delivered,
\* at least 5 source frames received and a time of the last delivery, the call
\* returns true exactly if the time since the last delivery is at least half
\* the target interval (obs_frame_interval / 2 in integers), or the number of
\* delivered frames is at most the number of whole target intervals in it
C19_SteadyStateDecision ==
  (/\ TimedCall
   /\ tcall.pre.frames_delivered >= 10
   /\ tcall.pre.frames_received >= 5
   /\ tcall.pre.last_obs_frame_time # 0)
    => (tcall.deliver <=>
          \/ CallElapsed >= tcall.pre.obs_frame_interval \div 2
          \/ tcall.pre.frames_delivered <= CallElapsed \div tcall.pre.obs_frame_interval)

\* C19: in the steady state a call a quarter interval after the last delivery
\* was refused
C19_Witness ==
  /\ TimedCall /\ ~ tcall.deliver
  /\ tcall.pre.frames_delivered >= 10
  /\ tcall.pre.frames_received >= 5
  /\ tcall.pre.last_obs_frame_time # 0
  /\ CallElapsed > 0

\* C20: with a strategy other than passthrough the call returns true whenever
\* fewer than 5 source frames were received or there is no time of a last
\* delivery, whatever the time of the call and the number of delivered frames
C20_InitialFramesDeliver ==
  (/\ TimedCall
   /\ (tcall.pre.frames_received < 5 \/ tcall.pre.last_obs_frame_time = 0))
    => tcall.deliver

\* C20: after the first 10 deliveries a call right after the last delivery
\* returned true because fewer than 5 source frames had come in
C20_Witness ==
  /\ TimedCall /\ tcall.deliver
  /\ tcall.pre.frames_delivered >= 10
  /\ tcall.pre.frames_received < 5
  /\ tcall.pre.last_obs_frame_time # 0
  /\ CallElapsed < tcall.pre.obs_frame_interval \div 2


\* C21: a delivery made through the render path a full target interval or
\* more after the delivery before it leaves the duplicate counter as it is
\* (the counter goes up only if the time between the two deliveries is below
\* half the target interval)
C21_NoDuplicateAfterFullInterval ==
  (/\ TimedCall /\ tcall.deliver
   /\ tcall.pre.last_obs_frame_time # 0
   /\ CallElapsed >= tcall.pre.obs_frame_interval)
    => timing.frames_duplicated = tcall.pre.frames_duplicated


\* C22: under the adaptive strategy, in rounds of one target interval, one
\* source frame and one poll, frame_debt never leaves the band of -2.0 to 2.0
\* and no drop is counted
C22_DebtStaysBounded ==
  (timing.initialized /\ timing.strategy = "ADAPTIVE")
    => /\ timing.frame_debt <= 2 * DEBT_ONE
       /\ timing.frame_debt >= - (2 * DEBT_ONE)
       /\ timing.frames_dropped = 0

\* C22: past the first ten deliveries and with more than ten source frames
\* received, a poll came more than a target interval after the last delivery,
\* and the debt is still zero
C22_Witness ==
  /\ TimedCall /\ tcall.deliver
  /\ tcall.pre.strategy = "ADAPTIVE"
  /\ tcall.pre.frames_delivered >= 10
  /\ tcall.pre.frames_received > 10
  /\ CallElapsed > tcall.pre.obs_frame_interval
  /\ timing.frame_debt = 0


\* C23: under the adaptive strategy c64u_timing_get_frame_for_obs returns the
\* front buffer; a debt above 2.0 goes down by 1.0 and counts a drop, a debt
\* below -2.0 goes up by 1.0 and counts a duplicate, any other debt leaves
\* debt and both counters as they are
C23_AdaptiveSelectSteps ==
  (tsel.calls > 0 /\ tsel.pre.strategy = "ADAPTIVE")
    => /\ tsel.ret = tsel.front
       /\ tsel.pre.frame_debt > 2 * DEBT_ONE
            => /\ timing.frame_debt = tsel.pre.frame_debt - DEBT_ONE
               /\ timing.frames_dropped = tsel.pre.frames_dropped + 1
               /\ timing.frames_duplicated = tsel.pre.frames_duplicated
       /\ tsel.pre.frame_debt < - (2 * DEBT_ONE)
            => /\ timing.frame_debt = tsel.pre.frame_debt + DEBT_ONE
               /\ timing.frames_duplicated = tsel.pre.frames_duplicated + 1
               /\ timing.frames_dropped = tsel.pre.frames_dropped
       /\ (tsel.pre.frame_debt <= 2 * DEBT_ONE /\ tsel.pre.frame_debt >= - (2 * DEBT_ONE))
            => /\ timing.frame_debt = tsel.pre.frame_debt
               /\ timing.frames_dropped = tsel.pre.frames_dropped
               /\ timing.frames_duplicated = tsel.pre.frames_duplicated

\* C23: a second selection found the debt at exactly 2.0, after the first had
\* taken it down from 3.0 and counted a drop, and left it there
C23_Witness ==
  /\ tsel.calls = 2
  /\ tsel.pre.strategy = "ADAPTIVE"
  /\ tsel.pre.frame_debt = 2 * DEBT_ONE
  /\ tsel.pre.frames_dropped = 1
  /\ timing.frames_dropped = 1
  /\ tsel.ret = frame_buffer_front

\* C24: under the interpolation strategy there is one snapshot per completed
\* source frame: no more snapshots are taken than frames were completed
C24_OneSnapshotPerSourceFrame ==
  tsel.snaps <= buffer_swaps

\* C25: when a bmalloc of the interpolation frames fails in c64u_timing_init,
\* the strategy is adaptive afterwards, the three frame pointers are NULL and
\* no block allocated before the failure is left, and every later
\* c64u_timing_get_frame_for_obs returns the front buffer
C25_AllocationFailureFallsBack ==
  (timing.initialized /\ tsel.requested = "INTERPOLATION" /\ tsel.fail \in 0 .. 2)
    => /\ timing.strategy = "ADAPTIVE"
       /\ \A i \in 0 .. 2 : ~ timing.frames[i]
       /\ timing.ring_blocks = 0
       /\ tsel.calls > 0 => (tsel.ret = tsel.front /\ tsel.snaps = 0)

\* C25: the third bmalloc failed, and two selections since then returned the
\* front buffer, across a swap
C25_Witness ==
  /\ timing.initialized /\ tsel.requested = "INTERPOLATION" /\ tsel.fail = 2
  /\ tsel.calls = 2
  /\ tsel.ret = tsel.front
  /\ buffer_swaps >= 2

C27_BuffersSizedForCurrentHeight ==
  /\ \A b \in Buffers : DOMAIN bufmem[b] = 0 .. (video_format.height - 1)
  /\ ~ heap_overflow


\* C28 as stated: while a frame is assembled the rows that the slot at hand
\* does not cover stay as they are, and once the last slot is done every row
\* of every received slot holds the two palette entries of the slot's byte,
\* low nibble first
C28_EverySlotRowConverted ==
  [][ wpc = "assemble"
        => /\ \A l \in AllocLines :
                (~ current_frame.packets[wslot].received
                   \/ l < current_frame.packets[wslot].line_num
                   \/ l >= current_frame.packets[wslot].line_num
                             + current_frame.packets[wslot].lines_per_packet
                   \/ l >= video_format.height)
                  => bufmem'[frame_buffer_back][l] = bufmem[frame_buffer_back][l]
           /\ wpc' = "swap"
                => \A i \in SlotIdx : \A r \in 0 .. (C64U_LINES_PER_PACKET - 1) :
                     LET s == current_frame.packets[i]
                     IN (s.received /\ r < s.lines_per_packet
                           /\ s.line_num + r < video_format.height
                           /\ s.line_num + r \in AllocLines)
                          => bufmem'[frame_buffer_back][s.line_num + r] =
                               << vic_colors[(s.packet_data % 16) + 1],
                                  vic_colors[(s.packet_data \div 16) + 1] >> ]_vars

\* C28, amended: the same, for the rows of a received slot that no received
\* slot of a higher index covers as well
C28_LastCoveringSlotConverted ==
  [][ wpc = "assemble"
        => /\ \A l \in AllocLines :
                (~ current_frame.packets[wslot].received
                   \/ l < current_frame.packets[wslot].line_num
                   \/ l >= current_frame.packets[wslot].line_num
                             + current_frame.packets[wslot].lines_per_packet
                   \/ l >= video_format.height)
                  => bufmem'[frame_buffer_back][l] = bufmem[frame_buffer_back][l]
           /\ wpc' = "swap"
                => \A i \in SlotIdx : \A r \in 0 .. (C64U_LINES_PER_PACKET - 1) :
                     LET s == current_frame.packets[i]
                     IN (s.received /\ r < s.lines_per_packet
                           /\ s.line_num + r < video_format.height
                           /\ s.line_num + r \in AllocLines
                           /\ ~ \E j \in SlotIdx :
                                  /\ j > i /\ current_frame.packets[j].received
                                  /\ current_frame.packets[j].line_num <= s.line_num + r
                                  /\ s.line_num + r < current_frame.packets[j].line_num
                                                        + current_frame.packets[j].lines_per_packet)
                          => bufmem'[frame_buffer_back][s.line_num + r] =
                               << vic_colors[(s.packet_data % 16) + 1],
                                  vic_colors[(s.packet_data \div 16) + 1] >> ]_vars

\* C28: a frame is assembled whose slot 0 starts at row 1 and whose slot 1
\* starts at row 2 with another payload: row 1 holds the pixels of slot 0,
\* rows 2 and 3 hold those of slot 1, and row 0 is as it was allocated
C28_Witness ==
  /\ wpc = "swap"
  /\ current_frame.packets[0].received /\ current_frame.packets[0].line_num = 1
  /\ current_frame.packets[1].received /\ current_frame.packets[1].line_num = 2
  /\ current_frame.packets[0].packet_data = 52
  /\ current_frame.packets[1].packet_data = 18
  /\ bufmem[frame_buffer_back][0] = ZeroLine
  /\ bufmem[frame_buffer_back][1] = << vic_colors[5], vic_colors[4] >>
  /\ bufmem[frame_buffer_back][2] = << vic_colors[3], vic_colors[2] >>
  /\ bufmem[frame_buffer_back][3] = << vic_colors[3], vic_colors[2] >>


\* C29: when a valid packet of another frame number arrives while the frame in
\* progress has packets, the dropped-frame counter goes up by one if and only if
\* that frame is not complete and older than the timeout budget; a frame that
\* is neither complete nor timed out goes without a change of the counter and
\* without a swap
C29_PreemptionCountsOnlyTimedOut ==
  [][ (/\ RecvStep
       /\ obs'.prev # "none"
       /\ current_frame.frame_num # obs'.frame_num
       /\ current_frame.received_packets > 0)
        => LET complete == current_frame.received_packets = current_frame.expected_packets
               timed_out == now - current_frame.start_time > C64U_FRAME_TIMEOUT_MS
           IN /\ frame_drops' = frame_drops + 1 <=> (~ complete /\ timed_out)
              /\ frame_drops' # frame_drops + 1 => frame_drops' = frame_drops
              /\ (~ complete /\ ~ timed_out)
                   => /\ wsite' # "preempt"
                      /\ UNCHANGED << frame_drops, buffer_swaps, last_completed_frame, bufmem,
                                      frame_buffer_front, frame_buffer_back, frame_ready >> ]_vars

\* C29: a frame that had timed out was counted, and the frame that displaced
\* it was itself displaced within its budget, with the counter left at 1 and
\* nothing swapped
C29_Witness ==
  /\ obs.prev = "abandoned"
  /\ frame_drops = 1
  /\ buffer_swaps = 0
  /\ packet_count = 3


\* C30: the timing state exists only between the format detection and the
\* stop of the stream: it is initialised only with a detected format, and
\* after c64u_stop_streaming has returned there is none until the stream is
\* started again
C30_TimingOnlyBetweenDetectionAndStop ==
  /\ timing.initialized => video_format.format_detected
  /\ (stops > 0 /\ Stopped) => ~ timing.initialized


\* C31: the timeout clock of a frame starts when its first packet arrives:
\* after a valid packet has been stored as the first one in the table of its
\* frame, whatever the frame number, start_time of that frame is the time of
\* this arrival
C31_ClockStartsAtFirstPacket ==
  [][ (/\ RecvStep
       /\ obs'.slot = "stored"
       /\ \/ obs'.prev \in {"fresh", "abandoned", "dropped"}
          \/ obs'.prev = "same" /\ current_frame.received_packets = 0)
        => /\ current_frame'.frame_num = obs'.frame_num
           /\ current_frame'.received_packets = 1
           /\ current_frame'.start_time = now ]_vars


\* C32: whenever the worker does not hold the assembly lock, the frame in
\* progress is not complete; so no packet of another frame number ever finds a
\* complete frame, and the worker is never at the assemble-and-swap of the
\* preemption site
C32_NoCompleteFrameBetweenPackets ==
  /\ assembly_mutex # "video"
       => ~ (current_frame.received_packets > 0
               /\ current_frame.received_packets = current_frame.expected_packets)
  /\ obs.prev # "complete"
  /\ wsite # "preempt"

\* C32: after a frame was completed and swapped, a later frame with one packet
\* was displaced by a packet of another frame number, and the worker is back at
\* the socket with the lock released
C32_Witness ==
  /\ wpc = "recv" /\ assembly_mutex = "free"
  /\ buffer_swaps > 0
  /\ obs.prev = "abandoned"
  /\ current_frame.received_packets = 1
  /\ current_frame.expected_packets = 0


\* the slots of the table in progress that hold a packet
ReceivedSlots == { i \in DOMAIN current_frame.packets : current_frame.packets[i].received }

\* the worker is about to assemble and swap the frame in progress
AboutToAssemble ==
  wpc = "lock" /\ wsite = "complete" /\ last_completed_frame # current_frame.frame_num

\* C33 (as claimed): whenever a frame is assembled and swapped, the slots that
\* hold a packet are exactly the slots 0 .. expected_packets - 1
C33_SlotsBelowExpectedReceived ==
  AboutToAssemble
    => \A i \in DOMAIN current_frame.packets :
         current_frame.packets[i].received <=> i < current_frame.expected_packets

\* C33 (amended): whenever a frame is assembled and swapped, exactly
\* expected_packets slots hold a packet, the slot expected_packets - 1 among
\* them; they are the slots 0 .. expected_packets - 1 if and only if no packet
\* was stored at an index of expected_packets or above
C33_ExpectedManySlotsReceived ==
  AboutToAssemble
    => /\ Cardinality(ReceivedSlots) = current_frame.expected_packets
       /\ current_frame.received_packets = current_frame.expected_packets
       /\ (current_frame.expected_packets - 1) \in ReceivedSlots
       /\ (\A i \in ReceivedSlots : i < current_frame.expected_packets)
            <=> (\A i \in 0 .. (current_frame.expected_packets - 1) : i \in ReceivedSlots)

\* C33: a frame is about to be assembled whose last-flagged packet had index 1
\* and whose other packet was stored at index 2, with slot 0 empty
C33_Witness ==
  /\ AboutToAssemble
  /\ current_frame.expected_packets = 2
  /\ ReceivedSlots = {1, 2}


\* C34: received_packets of the frame in progress is the number of slots of
\* its table that are marked received, and is at most the capacity of the table
C34_CountMatchesReceivedSlots ==
  /\ current_frame.received_packets = Cardinality(ReceivedSlots)
  /\ current_frame.received_packets <= C64U_MAX_PACKETS_PER_FRAME

\* C34: every slot of the table is filled, and the packet that arrived last
\* was a duplicate of one of them
C34_Witness ==
  /\ obs.slot = "duplicate"
  /\ wpc = "recv"
  /\ ReceivedSlots = SlotIdx
  /\ current_frame.received_packets = C64U_MAX_PACKETS_PER_FRAME


\* C35: no write into a pixel buffer goes past the memory allocated for it:
\* not the rows the assembler converts, not the zeroing at stop, not the copy
\* into an interpolation frame
C35_WritesStayInsideAllocation ==
  ~ heap_overflow

(***************************************************************************)
(* Properties of the calls of the control thread, of the render call and   *)
(* of the two locks.                                                       *)
(***************************************************************************)
\* C36: for any sequence of start, stop, update and destroy calls of the one
\* control thread, a video worker thread is created only when none exists (so
\* there is never more than one), a worker exists only while streaming is
\* true or while the call that cleared the flag waits in pthread_join for
\* that worker (so between two calls only while streaming is true), and a
\* start on a stream that is already streaming creates no thread and changes
\* neither flag
C36_OneWorkerOnlyWhileStreaming ==
  [][ /\ (WorkerExists' /\ (~ WorkerExists \/ (~ streaming /\ streaming')))
           => (~ WorkerExists /\ ~ streaming /\ streaming' /\ thread_active')
      /\ (WorkerExists' /\ ~ streaming') => Joining'
      /\ (BetweenCalls' /\ WorkerExists') => streaming'
      /\ (streaming /\ ctl'.n = ctl.n + 1 /\ ctl'.call \in {"start", "update"})
           => UNCHANGED << wvars, thread_active, streaming, cpc >> ]_vars

\* C36 happens: the stream was stopped and started again, a start found it
\* streaming, and the one worker is at work on a packet
C36_Witness ==
  /\ stops > 0 /\ streaming /\ cpc = "idle"
  /\ ctl = [call |-> "start", n |-> MaxControl]
  /\ wpc = "lock"

\* the video worker has left its loop at a receive error and no stop has
\* cleared the flags since
WorkerDead == wpc = "exited" /\ thread_active /\ obs.slot = "recv_error"

\* C37: after the video worker has exited at a fatal socket error, streaming
\* stays true until c64u_stop_streaming is called, a c64u_start_streaming
\* creates no worker and no packet is processed; a worker is created again
\* only by a start that finds streaming false after a stop; and until the stop
\* the front buffer, its pixels and frame_ready stay as the last swap left
\* them and every render call that begins takes the front buffer, as its
\* texture or as the source of its snapshot
C37_DeadWorkerUntilStopAndStart ==
  [][ /\ (WorkerDead /\ stops' = stops)
           => /\ streaming /\ streaming'
              /\ wpc' = "exited"
              /\ UNCHANGED << packet_count, obs, avars, frame_buffer_front, bufmem, frame_ready >>
      /\ (WorkerDead /\ render_calls' = render_calls + 1 /\ frame_ready)
           => \/ rpc' = "lock" /\ frame_to_render' = frame_buffer_front
              \/ rpc' = "copy" /\ rsrc' = frame_buffer_front
      /\ (wpc = "exited" /\ wpc' # "exited")
           => (~ streaming /\ stops > 0 /\ cpc = "idle" /\ ctl'.call = "start") ]_vars

\* C37 happens: the worker died after a swap, a start was called on the
\* streaming source, and a render call is drawing the front buffer
C37_Witness ==
  /\ WorkerDead /\ stops = 0 /\ buffer_swaps > 0
  /\ ctl.call = "start"
  /\ rpc = "draw" /\ frame_to_render = frame_buffer_front

\* c64u_render is at its choice of frame_to_render for a ready frame
RenderChooses == render_calls' = render_calls + 1 /\ streaming /\ frame_ready

\* c64u_timing_should_deliver_frame answers no for the timing state at hand
NotDueNow ==
  /\ timing.initialized /\ timing.strategy # "PASSTHROUGH"
  /\ timing.frames_delivered >= 10
  /\ timing.last_obs_frame_time # 0 /\ timing.frames_received >= 5
  /\ now - timing.last_obs_frame_time < timing.obs_frame_interval \div 2
  /\ timing.frames_delivered > (now - timing.last_obs_frame_time) \div timing.obs_frame_interval

\* C38: a render call that finds streaming and frame_ready set goes on to
\* draw a pixel buffer whatever the strategy: the front buffer or a snapshot
\* copied from it, and the front buffer itself when should-deliver answers no
\* (no delivery is counted then); the draw builds its texture from a non-null
\* frame; frame_ready is set only by a swap, cleared only by the clearing step
\* of c64u_stop_streaming and left alone by every step of the render call
C38_RenderPresentsReadyFrame ==
  [][ /\ RenderChooses
           => \/ rpc' = "lock" /\ frame_to_render' = frame_buffer_front
              \/ /\ rpc' = "copy" /\ rsrc' = frame_buffer_front
                 /\ timing'.strategy = "INTERPOLATION"
      /\ (RenderChooses /\ NotDueNow)
           => /\ rpc' = "lock" /\ frame_to_render' = frame_buffer_front
              /\ timing'.frames_delivered = timing.frames_delivered
      /\ (rpc = "copy" /\ rpc' = "lock")
           => frame_to_render' \in { InterpFrame(i) : i \in 0 .. 2 }
      /\ (rpc = "draw" /\ rpc' = "idle")
           => /\ frame_to_render \in Buffers \cup { InterpFrame(i) : i \in 0 .. 2 }
              /\ seen' = TextureOf(frame_to_render, video_format.height)
      /\ (frame_ready /\ ~ frame_ready') => (cpc = "clear" /\ cpc' = "reset")
      /\ (~ frame_ready /\ frame_ready') => buffer_swaps' = buffer_swaps + 1
      /\ (rpc' # rpc \/ rline' # rline \/ render_calls' # render_calls)
           => frame_ready' = frame_ready ]_vars

\* C38 happens: an adaptive render call past the first ten deliveries was not
\* due, fell back to the front buffer and is drawing it
C38_Witness ==
  /\ streaming /\ frame_ready
  /\ timing.strategy = "ADAPTIVE" /\ timing.frames_delivered = 10
  /\ timing.last_obs_frame_time = now
  /\ render_calls = 1
  /\ rpc = "draw" /\ frame_to_render = frame_buffer_front

WaitsForFrameLock == { t \in {"video", "render", "control"} :
                         \/ t = "video" /\ wpc = "lock"
                         \/ t = "render" /\ rpc = "lock"
                         \/ t = "control" /\ cpc = "clear" }
WaitsForAssemblyLock == { t \in {"control"} : cpc = "reset" }

\* C40: the worker holds the frame lock only inside the assembly lock, the
\* render call holds the frame lock only and only while it draws, the control
\* thread holds no lock while it waits for one, no thread waits for a lock
\* whose holder waits for a lock held by the first, and a lock that is held
\* is released again and a thread that waits for a lock gets it
C40_NoDeadlockOnTheTwoLocks ==
  /\ [](/\ frame_mutex \in {"free", "video", "render"}
        /\ assembly_mutex \in {"free", "video"}
        /\ frame_mutex = "video" => (assembly_mutex = "video" /\ wpc \in {"assemble", "swap", "unlock"})
        /\ assembly_mutex = "video" => wpc \in {"lock", "assemble", "swap", "unlock"}
        /\ frame_mutex = "render" <=> rpc = "draw"
        /\ frame_mutex # "free" => frame_mutex \notin WaitsForFrameLock
        /\ assembly_mutex # "free" => (frame_mutex \notin WaitsForAssemblyLock
                                       /\ WaitsForAssemblyLock = {}))
  /\ (frame_mutex # "free") ~> (frame_mutex = "free")
  /\ (assembly_mutex # "free") ~> (assembly_mutex = "free")
  /\ (wpc = "lock") ~> (frame_mutex = "video")
  /\ (rpc = "lock") ~> (frame_mutex = "render")
  /\ (cpc = "clear") ~> (cpc = "reset")
  /\ (cpc = "reset") ~> (cpc = "idle")

\* C40 happens: the worker holds the assembly lock and waits for the frame
\* lock, which the render call holds, while the control thread has cleared the
\* flags and waits for the worker
C40_Witness ==
  /\ wpc = "lock" /\ assembly_mutex = "video"
  /\ rpc = "draw" /\ frame_mutex = "render"
  /\ cpc = "join"

====
